---- MODULE Spec2Model ----
(***************************************************************************)
(* Retrieval-and-filtering core of rag-youtube:                            *)
(*   FAISSVectorStore   src/src/vector_store_faiss.py                      *)
(*   DocumentFilter     src/src/api/filters.py                             *)
(*   RAGEngine          src/src/api/rag_engine.py                          *)
(*                                                                         *)
(* Python values are encoded as follows.  A text (chunk or query) is a     *)
(* small integer naming it; the embedding gateway maps it to a point of    *)
(* the integer line and the flat L2 index measures squared distance.  A    *)
(* dictionary is a record over its known keys, an absent key holding a     *)
(* Missing/No.. value.  A date string is a sequence of digits, compared    *)
(* lexicographically as Python compares strings.                           *)
(***************************************************************************)
EXTENDS Integers, Sequences, FiniteSets, TLC

----------------------------------------------------------------------------
(* Bounds of the model *)

\* chunks a store may hold in the store specifications
MaxDocs == 3
\* texts in one add_texts call
MaxBatch == 2
\* largest k of a search in the store specifications
MaxK == 4

\* texts known to the store specifications (chunks and queries)
Texts == 1..3

----------------------------------------------------------------------------
(* Python values *)

Missing == "<missing>"
PyTrue == "True"
PyFalse == "False"

\* an optional list: has = FALSE is an absent key (or None)
NoList == [has |-> FALSE, items |-> <<>>]
List(s) == [has |-> TRUE, items |-> s]

\* an optional string of digits: has = FALSE is an absent key (or None)
NoDate == [has |-> FALSE, s |-> <<>>]
Date(s) == [has |-> TRUE, s |-> s]

\* the metadata dictionary {}
EmptyMeta ==
  [has_captions |-> Missing, category |-> Missing, quality_score |-> Missing,
   published_date |-> NoDate, playlists |-> NoList, playlist_ids |-> NoList,
   video_id |-> Missing, source |-> Missing]

\* a metadata dictionary as the ingestion of a captioned video stores it
CaptionedMeta ==
  [has_captions |-> PyTrue, category |-> "educational", quality_score |-> "high",
   published_date |-> Date(<<1, 2>>), playlists |-> List(<<"PL1">>),
   playlist_ids |-> NoList, video_id |-> Missing, source |-> Missing]

\* metadata dictionaries handed to add_texts in the store specifications
StoreMetas == {EmptyMeta, CaptionedMeta}

\* a filter dictionary: an absent key holds Missing / NoList / NoDate; other says
\* that the dictionary holds some key the filter does not read; none says that
\* the argument is None rather than a dictionary
FilterDict(rc, cats, quals, dfrom, dto, pls, other) ==
  [none |-> FALSE, require_captions |-> rc, categories |-> cats,
   quality_levels |-> quals, date_from |-> dfrom, date_to |-> dto,
   playlists |-> pls, other |-> other]

\* the dictionary {} that DocumentFilter starts with
EmptyFilters == FilterDict(Missing, NoList, NoList, NoDate, NoDate, NoList, FALSE)

\* filters=None
NoneFilters == [EmptyFilters EXCEPT !.none = TRUE]

Min(a, b) == IF a <= b THEN a ELSE b

Take(s, n) == SubSeq(s, 1, Min(n, Len(s)))

SeqsUpTo(S, n) == UNION {[1..m -> S] : m \in 0..n}

----------------------------------------------------------------------------
(* Files of the persist directory *)

Absent == [state |-> "absent", data |-> <<>>]
Corrupt == [state |-> "corrupt", data |-> <<>>]
File(d) == [state |-> "ok", data |-> d]

\* json.dump / json.load of documents.json: a list of strings
JsonDumpDocs(docs) == [i \in 1..Len(docs) |-> [j |-> "string", v |-> docs[i]]]
JsonLoadDocs(arr) == [i \in 1..Len(arr) |-> arr[i].v]

\* json.dump of one metadata dictionary: an object holding the present keys
JsonBool(b) == IF b = PyTrue THEN [j |-> "true"] ELSE [j |-> "false"]
JsonString(s) == [j |-> "string", v |-> s]
JsonArray(items) == [j |-> "array", v |-> [i \in 1..Len(items) |-> JsonString(items[i])]]

MetaKeys ==
  {"has_captions", "category", "quality_score", "published_date", "playlists",
   "playlist_ids", "video_id", "source"}

PresentKeys(m) ==
  {k \in MetaKeys :
     CASE k = "has_captions" -> m.has_captions # Missing
       [] k = "category" -> m.category # Missing
       [] k = "quality_score" -> m.quality_score # Missing
       [] k = "published_date" -> m.published_date.has
       [] k = "playlists" -> m.playlists.has
       [] k = "playlist_ids" -> m.playlist_ids.has
       [] k = "video_id" -> m.video_id # Missing
       [] k = "source" -> m.source # Missing}

JsonDumpMeta(m) ==
  [k \in PresentKeys(m) |->
     CASE k = "has_captions" -> JsonBool(m.has_captions)
       [] k = "category" -> JsonString(m.category)
       [] k = "quality_score" -> JsonString(m.quality_score)
       [] k = "published_date" -> JsonString(m.published_date.s)
       [] k = "playlists" -> JsonArray(m.playlists.items)
       [] k = "playlist_ids" -> JsonArray(m.playlist_ids.items)
       [] k = "video_id" -> JsonString(m.video_id)
       [] k = "source" -> JsonString(m.source)]

JsonLoadMeta(obj) ==
  [has_captions |->
     IF "has_captions" \in DOMAIN obj
       THEN (IF obj["has_captions"].j = "true" THEN PyTrue ELSE PyFalse)
       ELSE Missing,
   category |-> IF "category" \in DOMAIN obj THEN obj["category"].v ELSE Missing,
   quality_score |->
     IF "quality_score" \in DOMAIN obj THEN obj["quality_score"].v ELSE Missing,
   published_date |->
     IF "published_date" \in DOMAIN obj THEN Date(obj["published_date"].v) ELSE NoDate,
   playlists |->
     IF "playlists" \in DOMAIN obj
       THEN List([i \in 1..Len(obj["playlists"].v) |-> obj["playlists"].v[i].v])
       ELSE NoList,
   playlist_ids |->
     IF "playlist_ids" \in DOMAIN obj
       THEN List([i \in 1..Len(obj["playlist_ids"].v) |-> obj["playlist_ids"].v[i].v])
       ELSE NoList,
   video_id |-> IF "video_id" \in DOMAIN obj THEN obj["video_id"].v ELSE Missing,
   source |-> IF "source" \in DOMAIN obj THEN obj["source"].v ELSE Missing]

JsonDumpMetas(ms) == [i \in 1..Len(ms) |-> JsonDumpMeta(ms[i])]
JsonLoadMetas(arr) == [i \in 1..Len(arr) |-> JsonLoadMeta(arr[i])]

----------------------------------------------------------------------------
(* State *)

VARIABLES
  index,        \* FAISSVectorStore.index: the vectors of the flat index, in order
  documents,    \* FAISSVectorStore.documents
  metadata,     \* FAISSVectorStore.metadata
  store_ok,     \* a constructed store object exists in the process
  f_index,      \* faiss.index
  f_docs,       \* documents.json
  f_meta,       \* metadata.json
  filters,      \* DocumentFilter.filters of the engine
  input,        \* the arguments the calls of a filter or engine run are made with
  call,         \* the last operation and its arguments
  ret,          \* what it returned, or that it raised
  threads,      \* the retrieve_sources calls in flight in the engine's worker threads
  writer,       \* the add_texts call in flight on the store
  reader,       \* a second store object on the same persist directory
  loader,       \* the batch loader: its run, its loaded list and loaded.json
  stream        \* the generator of /api/ask/stream: its position and the events sent

storeVars == <<index, documents, metadata, store_ok>>
diskVars == <<f_index, f_docs, f_meta>>
taskVars == <<threads, writer, reader, loader, stream>>
vars ==
  <<index, documents, metadata, store_ok, f_index, f_docs, f_meta, filters, input, call, ret,
    threads, writer, reader, loader, stream>>

\* no call in flight and no second store object
NoThreads == <<>>
IdleWriter == [pc |-> "idle"]
NoReader == [open |-> FALSE]
NoLoader == [pc |-> "none"]
NoStream == [pc |-> "none"]
NoTasks ==
  /\ threads = NoThreads
  /\ writer = IdleWriter
  /\ reader = NoReader
  /\ loader = NoLoader
  /\ stream = NoStream

Raised == [raised |-> TRUE, value |-> <<>>]
Returned(v) == [raised |-> FALSE, value |-> v]

----------------------------------------------------------------------------
(* FAISSVectorStore *)

\* the embedding gateway: one vector per text, here a point of the line
EmbedText(t) == t - 1

EmbedTexts(texts) == [i \in 1..Len(texts) |-> EmbedText(texts[i])]

\* IndexFlatL2 measures squared L2 distance
L2(a, b) == (a - b) * (a - b)

\* hit i comes before hit j: nearer first, equal distances in index order
Nearer(idx, q, i, j) ==
  \/ L2(idx[i], q) < L2(idx[j], q)
  \/ L2(idx[i], q) = L2(idx[j], q) /\ i < j

\* the entries of the index in hit order
HitOrder(idx, q) ==
  LET Before(i, j) == Nearer(idx, q, i, j)
  IN SortSeq([i \in 1..Len(idx) |-> i], Before)

\* the distance faiss reports with a label of -1: the largest float
PadDistance == 1000000

\* index.search(q, k): k hits, nearest first; label -1 fills the missing ones.
\* Labels are 0-based as in faiss.
IndexSearch(idx, q, k) ==
  LET order == HitOrder(idx, q)
  IN [p \in 1..k |->
        IF p <= Len(idx)
          THEN [label |-> order[p] - 1, distance |-> L2(idx[order[p]], q)]
          ELSE [label |-> -1, distance |-> PadDistance]]

\* the raw distance handed out as the score
Score_RawDistance(distance) == [num |-> distance, den |-> 1]

\* score = 1 / (1 + distance), kept as a fraction
Score(distance) == [num |-> 1, den |-> 1 + distance]

\* the loop without its idx >= 0 test: Python's documents[-1] is the last document
RECURSIVE SearchLoop_NoLabelTest(_, _, _, _)
SearchLoop_NoLabelTest(hits, docs, metas, i) ==
  IF i > Len(hits) THEN <<>>
  ELSE LET idx == IF hits[i].label < 0 THEN Len(docs) - 1 ELSE hits[i].label
           rest == SearchLoop_NoLabelTest(hits, docs, metas, i + 1)
       IN IF idx >= 0 /\ idx < Len(docs)
            THEN <<[content |-> docs[idx + 1],
                    score |-> [num |-> 1, den |-> 1 + hits[i].distance],
                    metadata |-> IF idx < Len(metas) THEN metas[idx + 1] ELSE EmptyMeta]>>
                 \o rest
            ELSE rest

\* the loop over the hits from hit i on: a result for every label that names a
\* document
SearchLoop(hits, docs, metas, i) ==
  LET Named(h) == h.label >= 0 /\ h.label < Len(docs)
      kept == SelectSeq(SubSeq(hits, i, Len(hits)), Named)
  IN [p \in 1..Len(kept) |->
        [content |-> docs[kept[p].label + 1],
         score |-> Score(kept[p].distance),
         metadata |-> IF kept[p].label < Len(metas) THEN metas[kept[p].label + 1]
                      ELSE EmptyMeta]]

SimilaritySearchWithScore(idx, docs, metas, q, k) ==
  SearchLoop(IndexSearch(idx, EmbedText(q), k), docs, metas, 1)

\* metadata extended only when metadatas is given
ExtendMetadata_NoDefault(metas, texts, metadatas) ==
  IF metadatas.has THEN metas \o metadatas.items ELSE metas

\* metadata.extend(metadatas) or metadata.extend([{}] * len(texts))
ExtendMetadata(metas, texts, metadatas) ==
  IF metadatas.has /\ metadatas.items # <<>>
    THEN metas \o metadatas.items
    ELSE metas \o [i \in 1..Len(texts) |-> EmptyMeta]

\* the in-memory fields of a store object, and the three files
Mem(i, d, m) == [index |-> i, documents |-> d, metadata |-> m]
Disk(fi, fd, fm) == [f_index |-> fi, f_docs |-> fd, f_meta |-> fm]

EmptyMem == Mem(<<>>, <<>>, <<>>)

\* load(), called by __init__ on fresh fields (index None, documents [], metadata []).
\* read_index and json.load raise on a file that is not whole.
LoadEffect(disk) ==
  IF disk.f_index.state = "absent"
    THEN [mem |-> EmptyMem, raised |-> FALSE]
  ELSE IF \/ disk.f_index.state = "corrupt"
          \/ disk.f_docs.state = "corrupt"
          \/ disk.f_meta.state = "corrupt"
    THEN [mem |-> EmptyMem, raised |-> TRUE]
  ELSE [mem |-> Mem(disk.f_index.data,
                    IF disk.f_docs.state = "ok"
                      THEN JsonLoadDocs(disk.f_docs.data) ELSE <<>>,
                    IF disk.f_meta.state = "ok"
                      THEN JsonLoadMetas(disk.f_meta.data) ELSE <<>>),
        raised |-> FALSE]

\* save(): write_index, then documents.json, then metadata.json, each written in
\* place.  stop = 0 runs to the end; stop = 1, 3, 5 ends during the first, second,
\* third write (the file is left partly written); stop = 2, 4 ends between writes.
SaveStops == 1..5

\* a save that writes the index and the documents and leaves metadata.json alone
Save_NoMetadata(mem, disk, stop) ==
  Disk(File(mem.index), File(JsonDumpDocs(mem.documents)), disk.f_meta)

Save(mem, disk, stop) ==
  Disk(IF stop = 1 THEN Corrupt ELSE File(mem.index),
       IF stop \in {1, 2} THEN disk.f_docs
         ELSE IF stop = 3 THEN Corrupt ELSE File(JsonDumpDocs(mem.documents)),
       IF stop \in {1, 2, 3, 4} THEN disk.f_meta
         ELSE IF stop = 5 THEN Corrupt ELSE File(JsonDumpMetas(mem.metadata)))

\* add_texts that extends documents before it calls the gateway
AddTextsEffect_ExtendFirst(mem, disk, a, embed_ok, stop) ==
  IF a.texts = <<>>
    THEN [mem |-> mem, disk |-> disk, raised |-> FALSE]
  ELSE IF ~embed_ok
    THEN [mem |-> Mem(mem.index, mem.documents \o a.texts, mem.metadata),
          disk |-> disk, raised |-> TRUE]
  ELSE LET added == Mem(mem.index \o [i \in 1..Len(a.texts) |-> a.texts[i] - 1],
                        mem.documents \o a.texts,
                        mem.metadata \o (IF a.metadatas.has /\ a.metadatas.items # <<>>
                                           THEN a.metadatas.items
                                           ELSE [i \in 1..Len(a.texts) |-> EmptyMeta]))
       IN [mem |-> added,
           disk |-> Disk(File(added.index), File(JsonDumpDocs(added.documents)),
                         File(JsonDumpMetas(added.metadata))),
           raised |-> FALSE]

\* add_texts(texts, metadatas): embed_ok is the outcome of the gateway call
AddTextsEffect(mem, disk, a, embed_ok, stop) ==
  IF a.texts = <<>>
    THEN [mem |-> mem, disk |-> disk, raised |-> FALSE]
  ELSE IF ~embed_ok
    THEN [mem |-> mem, disk |-> disk, raised |-> TRUE]
  ELSE LET added == Mem(mem.index \o EmbedTexts(a.texts),
                        mem.documents \o a.texts,
                        ExtendMetadata(mem.metadata, a.texts, a.metadatas))
       IN [mem |-> added, disk |-> Save(added, disk, stop), raised |-> stop # 0]

\* delete_collection that removes the index file and leaves the two lists on disk
DeleteCollectionEffect_IndexFileOnly(mem, disk) ==
  [mem |-> EmptyMem, disk |-> Disk(Absent, disk.f_docs, disk.f_meta)]

\* delete_collection(): a new empty index, empty lists, and each of the three
\* files removed if it exists
DeleteCollectionEffect(mem, disk) ==
  [mem |-> EmptyMem, disk |-> Disk(Absent, Absent, Absent)]

\* self.dimension
Dimension == 1536

\* get_collection_stats()
GetCollectionStats(mem) ==
  [total_documents |-> Len(mem.documents), index_size |-> Len(mem.index),
   embedding_dimension |-> Dimension]

curMem == Mem(index, documents, metadata)

\* the model stops adding once the index or a parallel list holds MaxDocs entries
Room(n) ==
  /\ Len(index) + n <= MaxDocs
  /\ Len(documents) + n <= MaxDocs
  /\ Len(metadata) + n <= MaxDocs
curDisk == Disk(f_index, f_docs, f_meta)

SetMem(m) ==
  /\ index' = m.index
  /\ documents' = m.documents
  /\ metadata' = m.metadata

SetDisk(d) ==
  /\ f_index' = d.f_index
  /\ f_docs' = d.f_docs
  /\ f_meta' = d.f_meta

\* a store object is constructed on the persist directory (a process starts)
OpenStore ==
  /\ LET e == LoadEffect(curDisk)
     IN /\ SetMem(e.mem)
        /\ store_ok' = ~e.raised
        /\ ret' = IF e.raised THEN Raised ELSE Returned(<<>>)
  /\ call' = [op |-> "open"]
  /\ UNCHANGED <<taskVars, diskVars, filters, input>>

\* the arguments of add_texts for n texts: metadatas absent or one per text
AddArgs(n) ==
  [texts : [1..n -> Texts],
   metadatas : {NoList} \cup {List(x) : x \in [1..n -> StoreMetas]}]

\* add_texts whose save runs to the end; the gateway call succeeds or fails
AddTexts ==
  /\ store_ok
  /\ \E n \in 0..MaxBatch :
     /\ Room(n)
     /\ \E a \in AddArgs(n), embed_ok \in BOOLEAN :
       /\ LET e == AddTextsEffect(curMem, curDisk, a, embed_ok, 0)
          IN /\ SetMem(e.mem)
             /\ SetDisk(e.disk)
             /\ ret' = IF e.raised THEN Raised ELSE Returned(<<>>)
       /\ call' = [op |-> "add", texts |-> a.texts, embed_ok |-> embed_ok, stop |-> 0]
  /\ UNCHANGED <<taskVars, store_ok, filters, input>>

\* add_texts whose save is cut short by a failed write or by the process stopping
AddTextsInterrupted ==
  /\ store_ok
  /\ \E n \in 1..MaxBatch :
     /\ Room(n)
     /\ \E a \in AddArgs(n), stop \in SaveStops :
       /\ LET e == AddTextsEffect(curMem, curDisk, a, TRUE, stop)
          IN /\ SetMem(e.mem)
             /\ SetDisk(e.disk)
             /\ ret' = IF e.raised THEN Raised ELSE Returned(<<>>)
       /\ call' = [op |-> "add", texts |-> a.texts, embed_ok |-> TRUE, stop |-> stop]
  /\ UNCHANGED <<taskVars, store_ok, filters, input>>

\* delete_collection(); call keeps how many chunks the collection held
DeleteCollection ==
  /\ store_ok
  /\ LET e == DeleteCollectionEffect(curMem, curDisk)
     IN SetMem(e.mem) /\ SetDisk(e.disk)
  /\ call' = [op |-> "delete", chunks |-> Len(documents)]
  /\ ret' = Returned(<<>>)
  /\ UNCHANGED <<taskVars, store_ok, filters, input>>

\* similarity_search_with_score(query, k); embed_ok is the outcome of the gateway
\* call that embeds the query
Search ==
  /\ store_ok
  /\ \E q \in Texts, k \in 1..MaxK, embed_ok \in BOOLEAN :
       /\ call' = [op |-> "search", q |-> q, k |-> k, embed_ok |-> embed_ok]
       /\ ret' = IF embed_ok
                   THEN Returned(SimilaritySearchWithScore(index, documents, metadata, q, k))
                   ELSE Raised
  /\ UNCHANGED <<taskVars, storeVars, diskVars, filters, input>>

\* get_collection_stats()
Stats ==
  /\ store_ok
  /\ call' = [op |-> "stats"]
  /\ ret' = Returned(GetCollectionStats(curMem))
  /\ UNCHANGED <<taskVars, storeVars, diskVars, filters, input>>

Init ==
  /\ index = <<>>
  /\ documents = <<>>
  /\ metadata = <<>>
  /\ store_ok = TRUE
  /\ f_index = Absent
  /\ f_docs = Absent
  /\ f_meta = Absent
  /\ filters = EmptyFilters
  /\ input = [kind |-> "none"]
  /\ call = [op |-> "init"]
  /\ ret = Returned(<<>>)
  /\ NoTasks

Next ==
  \/ OpenStore
  \/ AddTexts
  \/ DeleteCollection
  \/ Search
  \/ Stats

Spec == Init /\ [][Next]_vars

\* the same store on a disk whose writes can fail and a process that can stop
NextCrash ==
  \/ OpenStore
  \/ AddTexts
  \/ AddTextsInterrupted
  \/ DeleteCollection

SpecCrash == Init /\ [][NextCrash]_vars

----------------------------------------------------------------------------
(* DocumentFilter *)

\* largest number of results asked for (num_requested, num_sources)
MaxN == 8
\* longest result list handed to apply_filters, when built from SmallPool
MaxResults == 2

\* Python's truth value of a dictionary, a list and a string
DictTruthy(f) ==
  /\ ~f.none
  /\ \/ f.require_captions # Missing
     \/ f.categories.has
     \/ f.quality_levels.has
     \/ f.date_from.has
     \/ f.date_to.has
     \/ f.playlists.has
     \/ f.other

ListTruthy(l) == l.has /\ l.items # <<>>

StrTruthy(d) == d.has /\ d.s # <<>>

\* x in lst
InList(x, lst) == \E i \in 1..Len(lst) : lst[i] = x

\* a < b for two strings
RECURSIVE StrLess(_, _)
StrLess(a, b) ==
  IF b = <<>> THEN FALSE
  ELSE IF a = <<>> THEN TRUE
  ELSE IF Head(a) < Head(b) THEN TRUE
  ELSE IF Head(a) > Head(b) THEN FALSE
  ELSE StrLess(Tail(a), Tail(b))

\* the date test with both bounds exclusive
DateRangePasses_Exclusive(f, md) ==
  IF StrTruthy(f.date_from) \/ StrTruthy(f.date_to)
    THEN IF ~StrTruthy(md.published_date) THEN FALSE
         ELSE IF StrTruthy(f.date_from) /\ ~StrLess(f.date_from.s, md.published_date.s)
           THEN FALSE
         ELSE IF StrTruthy(f.date_to) /\ ~StrLess(md.published_date.s, f.date_to.s)
           THEN FALSE
         ELSE TRUE
    ELSE TRUE

\* the date range test of apply_filters
DateRangePasses(f, md) ==
  IF StrTruthy(f.date_from) \/ StrTruthy(f.date_to)
    THEN IF ~StrTruthy(md.published_date) THEN FALSE
         ELSE IF StrTruthy(f.date_from) /\ StrLess(md.published_date.s, f.date_from.s)
           THEN FALSE
         ELSE IF StrTruthy(f.date_to) /\ StrLess(f.date_to.s, md.published_date.s)
           THEN FALSE
         ELSE TRUE
    ELSE TRUE

\* the body of the loop of apply_filters: FALSE where the code says continue
DocPasses(f, md) ==
  IF f.require_captions = PyTrue /\ md.has_captions # PyTrue THEN FALSE
  ELSE IF /\ ListTruthy(f.categories)
          /\ ~InList(IF md.category = Missing THEN "uncategorized" ELSE md.category,
                     f.categories.items)
    THEN FALSE
  ELSE IF /\ ListTruthy(f.quality_levels)
          /\ ~InList(IF md.quality_score = Missing THEN "unknown" ELSE md.quality_score,
                     f.quality_levels.items)
    THEN FALSE
  ELSE IF ~DateRangePasses(f, md) THEN FALSE
  ELSE IF /\ ListTruthy(f.playlists)
          /\ ~\E i \in 1..Len(f.playlists.items) :
                InList(f.playlists.items[i],
                       IF md.playlists.has THEN md.playlists.items ELSE <<>>)
    THEN FALSE
  ELSE TRUE

RECURSIVE FilterLoop(_, _, _)
FilterLoop(f, docs, i) ==
  IF i > Len(docs) THEN <<>>
  ELSE IF DocPasses(f, docs[i].metadata)
    THEN <<docs[i]>> \o FilterLoop(f, docs, i + 1)
    ELSE FilterLoop(f, docs, i + 1)

\* apply_filters(documents) with self.filters = f
ApplyFilters(f, docs) ==
  IF ~DictTruthy(f) THEN docs ELSE FilterLoop(f, docs, 1)

\* apply_filters that writes the default category into the metadata it reads
ApplyFiltersEffect_FillDefaults(f, docs) ==
  [documents |-> IF ~DictTruthy(f) THEN docs
                 ELSE [i \in 1..Len(docs) |->
                         [docs[i] EXCEPT !.metadata.category =
                                           IF @ = Missing THEN "uncategorized" ELSE @]],
   filtered |-> ApplyFilters(f, docs)]

\* apply_filters(documents) with self.filters = f: the list it returns, and the
\* list it was given as the call leaves it (the loop reads each result with
\* doc.get and metadata.get and assigns nothing)
ApplyFiltersEffect(f, docs) ==
  [documents |-> docs, filtered |-> ApplyFilters(f, docs)]

OverFetchFactor == 3
OverFetchCap == 20

\* over-fetch without the cap
CalculateOverFetch_NoCap(num_requested, active_filters) ==
  IF ~active_filters THEN num_requested ELSE num_requested * OverFetchFactor

\* calculate_over_fetch(num_requested, active_filters)
CalculateOverFetch(num_requested, active_filters) ==
  IF ~active_filters
    THEN num_requested
    ELSE Min(num_requested * OverFetchFactor, OverFetchCap)

\* has_active_filters() with self.filters = f
HasActiveFilters(f) ==
  IF ~DictTruthy(f) THEN FALSE
  ELSE IF f.require_captions = PyTrue THEN TRUE
  ELSE IF ListTruthy(f.categories) THEN TRUE
  ELSE IF ListTruthy(f.quality_levels) THEN TRUE
  ELSE IF StrTruthy(f.date_from) \/ StrTruthy(f.date_to) THEN TRUE
  ELSE IF ListTruthy(f.playlists) THEN TRUE
  ELSE FALSE

\* a piece of the summary string: fixed text, a value of the spec, or a count
Piece(kind, v) == [kind |-> kind, v |-> v]

RECURSIVE JoinPieces(_, _)
\* sep.join(parts), parts being strings in pieces
JoinPieces(sep, parts) ==
  IF parts = <<>> THEN <<>>
  ELSE IF Len(parts) = 1 THEN Head(parts)
  ELSE Head(parts) \o <<Piece("text", sep)>> \o JoinPieces(sep, Tail(parts))

\* the parts list of get_filter_summary with self.filters = f
SummaryParts(f) ==
  (IF f.require_captions = PyTrue THEN <<<<Piece("text", "Captions required")>>>> ELSE <<>>)
  \o (IF ListTruthy(f.categories)
        THEN <<<<Piece("text", "Categories: ")>>
                 \o JoinPieces(", ", [i \in 1..Len(f.categories.items) |->
                                        <<Piece("value", f.categories.items[i])>>])>>
        ELSE <<>>)
  \o (IF ListTruthy(f.quality_levels)
        THEN <<<<Piece("text", "Quality: ")>>
                 \o JoinPieces(", ", [i \in 1..Len(f.quality_levels.items) |->
                                        <<Piece("value", f.quality_levels.items[i])>>])>>
        ELSE <<>>)
  \o (IF StrTruthy(f.date_from) /\ StrTruthy(f.date_to)
        THEN <<<<Piece("text", "Date range: "), Piece("date", f.date_from.s),
                 Piece("text", " to "), Piece("date", f.date_to.s)>>>>
      ELSE IF StrTruthy(f.date_from)
        THEN <<<<Piece("text", "After: "), Piece("date", f.date_from.s)>>>>
      ELSE IF StrTruthy(f.date_to)
        THEN <<<<Piece("text", "Before: "), Piece("date", f.date_to.s)>>>>
      ELSE <<>>)
  \o (IF ListTruthy(f.playlists)
        THEN <<<<Piece("count", Len(f.playlists.items)), Piece("text", " playlist(s)")>>>>
        ELSE <<>>)

\* get_filter_summary that says nothing when no filter is active
GetFilterSummary_EmptyWhenInactive(f) ==
  IF ~HasActiveFilters(f) THEN <<>> ELSE JoinPieces(" | ", SummaryParts(f))

\* get_filter_summary() with self.filters = f: the string, in pieces
GetFilterSummary(f) ==
  IF ~HasActiveFilters(f)
    THEN <<Piece("text", "No filters active")>>
    ELSE JoinPieces(" | ", SummaryParts(f))

\* date strings: D1 < D2 < D3 as Python orders strings
D1 == <<1>>
D2 == <<1, 2>>
D3 == <<2>>

\* the filter dictionaries handed to set_filters and retrieve_sources
FilterSpecs ==
  {FilterDict(rc, cats, quals, dfrom, dto, pls, FALSE) :
     rc \in {Missing, PyFalse, PyTrue},
     cats \in {NoList, List(<<>>), List(<<"educational", "uncategorized">>)},
     quals \in {NoList, List(<<>>), List(<<"high", "unknown">>)},
     dfrom \in {NoDate, Date(D2)},
     dto \in {NoDate, Date(D2)},
     pls \in {NoList, List(<<"PL1">>)}}
  \cup {FilterDict(Missing, NoList, NoList, NoDate, NoDate, NoList, TRUE),
        FilterDict(Missing, NoList, NoList, Date(<<>>), NoDate, NoList, FALSE),
        FilterDict(PyTrue, NoList, NoList, NoDate, NoDate, NoList, TRUE)}

\* the metadata dictionaries of the results handed to apply_filters
AllMetas ==
  [has_captions : {Missing, PyFalse, PyTrue},
   category : {Missing, "educational", "interview"},
   quality_score : {Missing, "high", "low"},
   published_date : {NoDate, Date(<<>>), Date(D1), Date(D2), Date(D3)},
   playlists : {NoList, List(<<"PL1">>), List(<<"PL2">>)},
   playlist_ids : {NoList}, video_id : {Missing}, source : {Missing}]

\* a result as retrieve_sources builds it
Doc(content, score, md) == [content |-> content, score |-> score, metadata |-> md]

\* a few results, told apart by their content, for lists of more than one result
SmallPool ==
  {Doc(1, Score(0), EmptyMeta),
   Doc(2, Score(0), CaptionedMeta),
   Doc(3, Score(1), [EmptyMeta EXCEPT !.has_captions = PyFalse, !.category = "interview",
                                      !.quality_score = "low",
                                      !.published_date = Date(D1),
                                      !.playlists = List(<<"PL2">>)]),
   Doc(4, Score(1), [EmptyMeta EXCEPT !.has_captions = PyTrue,
                                      !.published_date = Date(D3),
                                      !.playlists = List(<<"PL2", "PL1">>)]),
   Doc(5, Score(4), CaptionedMeta)}

\* the playlists a video is found in by get_video_playlists
VideoPlaylists ==
  <<[id |-> "PL1", title |-> "Basics"], [id |-> "PL2", title |-> "Weekly"]>>

\* the metadata the loader stores with the chunks of a captioned video found in
\* the playlists pls, no video info at hand: titles under playlists, ids under
\* playlist_ids
LoaderMetadata(video_id, pls) ==
  [has_captions |-> PyTrue, category |-> "uncategorized", quality_score |-> "none",
   published_date |-> NoDate,
   playlists |-> List([i \in 1..Len(pls) |-> pls[i].title]),
   playlist_ids |-> List([i \in 1..Len(pls) |-> pls[i].id]),
   video_id |-> video_id, source |-> video_id]

\* results whose chunks the loader ingested
LoadedResults ==
  {<<Doc(0, Score(0), LoaderMetadata("v1", pls))>> :
     pls \in {<<>>, VideoPlaylists, Tail(VideoPlaylists)}}

ResultLists ==
  {<<Doc(0, Score(0), md)>> : md \in AllMetas} \cup SeqsUpTo(SmallPool, MaxResults)
    \cup LoadedResults

\* the dictionaries handed to a first set_filters when a second one follows
FirstSpecs ==
  {FilterDict(PyTrue, NoList, NoList, NoDate, NoDate, NoList, FALSE),
   FilterDict(Missing, List(<<"educational", "uncategorized">>),
              List(<<"high", "unknown">>), NoDate, NoDate, NoList, FALSE),
   FilterDict(Missing, NoList, NoList, Date(D2), NoDate, NoList, FALSE),
   FilterDict(PyTrue, NoList, NoList, NoDate, NoDate, List(<<"PL1">>), FALSE),
   EmptyFilters}

\* the dictionaries handed to a second set_filters: one dimension each, an
\* inactive one, and one on two dimensions
SecondSpecs ==
  {FilterDict(PyTrue, NoList, NoList, NoDate, NoDate, NoList, FALSE),
   FilterDict(Missing, List(<<"educational", "uncategorized">>), NoList, NoDate, NoDate,
              NoList, FALSE),
   FilterDict(Missing, NoList, NoList, NoDate, Date(D2), NoList, FALSE),
   FilterDict(Missing, NoList, NoList, NoDate, NoDate, List(<<"PL1">>), FALSE),
   FilterDict(Missing, NoList, List(<<>>), NoDate, NoDate, NoList, FALSE),
   FilterDict(Missing, NoList, List(<<"high", "unknown">>), Date(D2), NoDate, NoList,
              FALSE)}

\* the arguments of one run of the filter: one dictionary and a result list, or
\* two dictionaries set one after the other, or the arguments of the over-fetch
FilterInputs ==
  {[kind |-> "filter", spec |-> f, documents |-> docs] :
     f \in FilterSpecs, docs \in ResultLists}
  \cup {[kind |-> "compose", spec |-> f, spec2 |-> g, documents |-> docs] :
          f \in FirstSpecs, g \in SecondSpecs,
          docs \in SeqsUpTo(SmallPool, MaxResults) \cup LoadedResults}
  \cup {[kind |-> "over_fetch", n |-> n, active |-> active] :
          n \in 1..MaxN, active \in BOOLEAN}

\* the dictionaries a run hands to set_filters
InputSpecs ==
  IF input.kind = "compose" THEN {input.spec, input.spec2} ELSE {input.spec}

\* the dictionaries the results of the run have been passed through so far, and
\* the list the last apply_filters returned, as the call before recorded them
Carried(c) ==
  IF "chain" \in DOMAIN c THEN [chain |-> c.chain, output |-> c.output]
  ELSE [chain |-> <<>>, output |-> <<>>]

\* set_filters that updates the active dictionary with the keys of the new one
SetFiltersEffect_Merge(old, new) ==
  [none |-> new.none,
   require_captions |-> IF new.require_captions # Missing THEN new.require_captions
                        ELSE old.require_captions,
   categories |-> IF new.categories.has THEN new.categories ELSE old.categories,
   quality_levels |-> IF new.quality_levels.has THEN new.quality_levels
                      ELSE old.quality_levels,
   date_from |-> IF new.date_from.has THEN new.date_from ELSE old.date_from,
   date_to |-> IF new.date_to.has THEN new.date_to ELSE old.date_to,
   playlists |-> IF new.playlists.has THEN new.playlists ELSE old.playlists,
   other |-> new.other \/ old.other]

\* self.filters after set_filters(new), old being the dictionary before
SetFiltersEffect(old, new) == new

\* set_filters(filters)
SetFilters ==
  /\ input.kind \in {"filter", "compose"}
  /\ \E f \in InputSpecs :
       /\ filters' = SetFiltersEffect(filters, f)
       /\ call' = [op |-> "set_filters", spec |-> f, chain |-> Carried(call).chain,
                    output |-> Carried(call).output]
  /\ ret' = Returned(<<>>)
  /\ UNCHANGED <<taskVars, storeVars, diskVars, input>>

\* apply_filters(documents), on the results of the run or on the output of the
\* apply_filters before it; left is the given list as the call leaves it; in a
\* run of two dictionaries chain lists the dictionaries the results of the run
\* have been passed through, and output is the list the last of them returned
ApplyFiltersCall ==
  /\ input.kind \in {"filter", "compose"}
  /\ \/ LET e == ApplyFiltersEffect(filters, input.documents)
        IN /\ call' = [op |-> "apply_filters", documents |-> input.documents,
                        left |-> e.documents,
                        chain |-> IF input.kind = "compose" THEN <<filters>> ELSE <<>>,
                        output |-> IF input.kind = "compose" THEN e.filtered ELSE <<>>]
           /\ ret' = Returned(e.filtered)
     \/ /\ input.kind = "compose"
        /\ Len(Carried(call).chain) = 1
        /\ LET e == ApplyFiltersEffect(filters, call.output)
           IN /\ call' = [op |-> "apply_filters", documents |-> call.output,
                           left |-> e.documents,
                           chain |-> Append(call.chain, filters),
                           output |-> e.filtered]
              /\ ret' = Returned(e.filtered)
  /\ UNCHANGED <<taskVars, storeVars, diskVars, filters, input>>

\* get_filter_summary()
GetFilterSummaryCall ==
  /\ input.kind = "filter"
  /\ call' = [op |-> "get_filter_summary"]
  /\ ret' = Returned(GetFilterSummary(filters))
  /\ UNCHANGED <<taskVars, storeVars, diskVars, filters, input>>

\* calculate_over_fetch(num_requested, active_filters)
CalculateOverFetchCall ==
  /\ input.kind = "over_fetch"
  /\ call' = [op |-> "calculate_over_fetch", n |-> input.n, active |-> input.active]
  /\ ret' = Returned(CalculateOverFetch(input.n, input.active))
  /\ UNCHANGED <<taskVars, storeVars, diskVars, filters, input>>

\* a new DocumentFilter, and the arguments its calls will be made with
InitFilter ==
  /\ index = <<>>
  /\ documents = <<>>
  /\ metadata = <<>>
  /\ store_ok = TRUE
  /\ f_index = Absent
  /\ f_docs = Absent
  /\ f_meta = Absent
  /\ filters = EmptyFilters
  /\ input \in FilterInputs
  /\ call = [op |-> "init"]
  /\ ret = Returned(<<>>)
  /\ NoTasks

NextFilter ==
  \/ SetFilters
  \/ ApplyFiltersCall
  \/ GetFilterSummaryCall
  \/ CalculateOverFetchCall

\* a DocumentFilter on its own, as the filter tests use it
SpecFilter == InitFilter /\ [][NextFilter]_vars

----------------------------------------------------------------------------
(* RAGEngine *)

\* chunks of the largest collection the engine is started on
MaxCorpus == 22

\* the metadata of chunk i of the collection
CorpusMeta(i) ==
  [has_captions |-> IF i % 4 = 1 THEN PyTrue ELSE IF i % 4 = 3 THEN Missing ELSE PyFalse,
   category |-> IF i % 3 = 0 THEN "educational"
                ELSE IF i % 3 = 1 THEN "interview" ELSE Missing,
   quality_score |-> IF i % 5 < 2 THEN "high" ELSE IF i % 5 = 2 THEN "low" ELSE Missing,
   published_date |-> IF i % 7 = 0 THEN NoDate
                      ELSE IF i % 3 = 0 THEN Date(D1)
                      ELSE IF i % 3 = 1 THEN Date(D2) ELSE Date(D3),
   playlists |-> IF i % 2 = 0 THEN List(<<"PL1">>) ELSE NoList,
   playlist_ids |-> NoList, video_id |-> Missing, source |-> Missing]

\* a store holding chunks 1..n, as add_texts leaves it
CorpusMem(n) ==
  Mem([i \in 1..n |-> EmbedText(i)], [i \in 1..n |-> i], [i \in 1..n |-> CorpusMeta(i)])

CorpusSizes == {0, 2, MaxCorpus}

\* retrieve_sources that returns nothing for a dictionary with a key it does not know
RetrieveSources_RejectUnknown(f, mem, question, num_sources, spec) ==
  LET f2 == IF DictTruthy(spec) THEN spec ELSE f
      active == DictTruthy(spec) /\ HasActiveFilters(f2)
      fetch_count == IF active THEN CalculateOverFetch(num_sources, TRUE) ELSE num_sources
      results == SimilaritySearchWithScore(mem.index, mem.documents, mem.metadata,
                                           question, fetch_count)
      sources == [i \in 1..Len(results) |->
                    Doc(results[i].content, results[i].score, results[i].metadata)]
  IN [filters |-> f2, fetch_count |-> fetch_count,
      sources |-> IF DictTruthy(spec) /\ spec.other THEN <<>>
                  ELSE IF active THEN Take(ApplyFilters(f2, sources), num_sources)
                  ELSE sources]

\* retrieve_sources that never calls set_filters
RetrieveSources_NoSetFilters(f, mem, question, num_sources, spec) ==
  LET active == DictTruthy(spec) /\ HasActiveFilters(f)
      fetch_count == IF active THEN CalculateOverFetch(num_sources, TRUE) ELSE num_sources
      results == SimilaritySearchWithScore(mem.index, mem.documents, mem.metadata,
                                           question, fetch_count)
      sources == [i \in 1..Len(results) |->
                    Doc(results[i].content, results[i].score, results[i].metadata)]
  IN [filters |-> f, fetch_count |-> fetch_count,
      sources |-> IF active THEN Take(ApplyFilters(f, sources), num_sources) ELSE sources]

\* retrieve_sources(question, num_sources, filters) on an engine whose
\* document_filter.filters is f and whose vector store is mem
RetrieveSources(f, mem, question, num_sources, spec) ==
  LET f2 == IF DictTruthy(spec) THEN spec ELSE f
      active == DictTruthy(spec) /\ HasActiveFilters(f2)
      fetch_count == IF active THEN CalculateOverFetch(num_sources, TRUE) ELSE num_sources
      results == SimilaritySearchWithScore(mem.index, mem.documents, mem.metadata,
                                           question, fetch_count)
      sources == [i \in 1..Len(results) |->
                    Doc(results[i].content, results[i].score, results[i].metadata)]
  IN [filters |-> f2, fetch_count |-> fetch_count,
      sources |-> IF active THEN Take(ApplyFilters(f2, sources), num_sources) ELSE sources]

\* the stored metadata dictionaries the results of a search hold: for each
\* result the position of self.metadata[idx], or 0 for a new empty dictionary
ResultRefs(mem, q, k) ==
  LET Named(h) == h.label >= 0 /\ h.label < Len(mem.documents)
      kept == SelectSeq(IndexSearch(mem.index, EmbedText(q), k), Named)
  IN [p \in 1..Len(kept) |->
        IF kept[p].label < Len(mem.metadata) THEN kept[p].label + 1 ELSE 0]

\* the vector store after retrieve_sources: each source holds the metadata
\* dictionary of the store itself, so what apply_filters leaves in the
\* dictionaries it was given is what the store holds afterwards
StoredAfterRetrieve(f, mem, question, num_sources, spec) ==
  LET f2 == IF DictTruthy(spec) THEN spec ELSE f
      active == DictTruthy(spec) /\ HasActiveFilters(f2)
      fetch_count == IF active THEN CalculateOverFetch(num_sources, TRUE) ELSE num_sources
      results == SimilaritySearchWithScore(mem.index, mem.documents, mem.metadata,
                                           question, fetch_count)
      sources == [i \in 1..Len(results) |->
                    Doc(results[i].content, results[i].score, results[i].metadata)]
      refs == ResultRefs(mem, question, fetch_count)
      left == IF active THEN ApplyFiltersEffect(f2, sources).documents ELSE sources
      Holders(p) == {j \in 1..Len(refs) : refs[j] = p}
  IN Mem(mem.index, mem.documents,
         [p \in 1..Len(mem.metadata) |->
            IF Holders(p) = {} THEN mem.metadata[p]
            ELSE left[CHOOSE j \in Holders(p) : TRUE].metadata])

\* how many keys a filter dictionary holds
KeyCount(f) ==
  Cardinality({k \in 1..7 :
     CASE k = 1 -> f.require_captions # Missing
       [] k = 2 -> f.categories.has
       [] k = 3 -> f.quality_levels.has
       [] k = 4 -> f.date_from.has
       [] k = 5 -> f.date_to.has
       [] k = 6 -> f.playlists.has
       [] k = 7 -> f.other})

\* the filters argument of retrieve_sources: None, or a dictionary of up to two keys
RetrieveSpecs == {NoneFilters} \cup {f \in FilterSpecs : KeyCount(f) <= 2}

\* the filters argument of the call made before
EarlierSpecs ==
  {NoneFilters,
   FilterDict(PyTrue, NoList, NoList, NoDate, NoDate, NoList, FALSE),
   FilterDict(Missing, List(<<"educational", "uncategorized">>), NoList, NoDate, Date(D2),
              NoList, FALSE)}

\* the questions asked: texts embedded at both ends and in the middle of the collection
Questions == {1, 12}

\* a request for more sources than the cap of the over-fetch
LargeRequests == {OverFetchCap + 1}

\* the arguments of the calls of one engine run
EngineInputs ==
  [kind : {"retrieve"}, question : Questions, n : 1..MaxN \cup LargeRequests,
   earlier : EarlierSpecs, spec : RetrieveSpecs]

\* retrieve_sources(question, n, filters), with this run's filters or the earlier
\* ones; embed_ok is the outcome of the gateway call that embeds the question
Retrieve ==
  /\ input.kind = "retrieve"
  /\ store_ok
  /\ \E spec \in {input.earlier, input.spec}, embed_ok \in BOOLEAN :
       LET e == RetrieveSources(filters, curMem, input.question, input.n, spec)
       IN /\ filters' = e.filters
          /\ SetMem(IF embed_ok
                      THEN StoredAfterRetrieve(filters, curMem, input.question, input.n,
                                               spec)
                      ELSE curMem)
          /\ call' = [op |-> "retrieve", question |-> input.question, n |-> input.n,
                      spec |-> spec, embed_ok |-> embed_ok, fetch_count |-> e.fetch_count]
          /\ ret' = IF embed_ok THEN Returned(e.sources) ELSE Raised
  /\ UNCHANGED <<taskVars, store_ok, diskVars, input>>

\* RAGEngine.__init__ on a persist directory holding a collection
InitEngine ==
  /\ \E size \in CorpusSizes :
       /\ index = CorpusMem(size).index
       /\ documents = CorpusMem(size).documents
       /\ metadata = CorpusMem(size).metadata
       /\ f_index = IF size = 0 THEN Absent ELSE File(CorpusMem(size).index)
       /\ f_docs = IF size = 0 THEN Absent ELSE File(JsonDumpDocs(CorpusMem(size).documents))
       /\ f_meta = IF size = 0 THEN Absent ELSE File(JsonDumpMetas(CorpusMem(size).metadata))
  /\ store_ok = TRUE
  /\ filters = EmptyFilters
  /\ input \in EngineInputs
  /\ call = [op |-> "init"]
  /\ ret = Returned(<<>>)
  /\ NoTasks

NextEngine == Retrieve

SpecEngine == InitEngine /\ [][NextEngine]_vars

----------------------------------------------------------------------------
(* RAGEngine.ask_async: retrieve_sources runs in worker threads that share the  *)
(* engine's DocumentFilter.  A thread can be suspended between any two of the   *)
(* steps below: set_filters (lines 50-51), the sizing of the fetch (54-56), the *)
(* search, which waits for the embedding gateway (59-67), and the filtering and *)
(* truncation (70-75).                                                          *)

\* worker threads running retrieve_sources at the same time
MaxThreads == 2

\* chunks of the collection the threads search
ThreadCorpus == 8

ThreadIds == 1..MaxThreads

\* the filters argument of a thread's call: None, a caption requirement, a list
\* of categories, and a dictionary that is not empty but has no active dimension
ThreadSpecs ==
  {NoneFilters,
   FilterDict(PyTrue, NoList, NoList, NoDate, NoDate, NoList, FALSE),
   FilterDict(Missing, List(<<"educational", "uncategorized">>), NoList, NoDate, NoDate,
              NoList, FALSE),
   FilterDict(PyFalse, NoList, NoList, NoDate, NoDate, NoList, FALSE)}

ThreadArgs == [question : {1}, n : {1, 2}, spec : ThreadSpecs]

ThreadInputs == [kind : {"threads"}, args : [ThreadIds -> ThreadArgs]]

\* a thread that has not started its call
NewThread == [pc |-> "start", fetch_count |-> 0, sources |-> <<>>]

\* lines 50-51: if filters: self.document_filter.set_filters(filters)
RetrieveSetFilters(t) ==
  /\ input.kind = "threads"
  /\ threads[t].pc = "start"
  /\ filters' = IF DictTruthy(input.args[t].spec) THEN input.args[t].spec ELSE filters
  /\ threads' = [threads EXCEPT ![t].pc = "set"]
  /\ UNCHANGED <<loader, stream, storeVars, diskVars, input, call, ret, writer, reader>>

\* lines 54-56: fetch_count, read from the shared filter
RetrieveFetchCount(t) ==
  /\ input.kind = "threads"
  /\ threads[t].pc = "set"
  /\ threads' =
       [threads EXCEPT
          ![t].pc = "sized",
          ![t].fetch_count =
             IF DictTruthy(input.args[t].spec) /\ HasActiveFilters(filters)
               THEN CalculateOverFetch(input.args[t].n, TRUE)
               ELSE input.args[t].n]
  /\ UNCHANGED <<loader, stream, storeVars, diskVars, filters, input, call, ret, writer, reader>>

\* lines 59-67: the search and the list of sources; a failing gateway call ends
\* the thread's call with the error
RetrieveSearch(t) ==
  /\ input.kind = "threads"
  /\ threads[t].pc = "sized"
  /\ \E embed_ok \in BOOLEAN :
       IF embed_ok
         THEN LET results == SimilaritySearchWithScore(index, documents, metadata,
                                                       input.args[t].question,
                                                       threads[t].fetch_count)
              IN /\ threads' =
                      [threads EXCEPT
                         ![t].pc = "searched",
                         ![t].sources =
                            [i \in 1..Len(results) |->
                               Doc(results[i].content, results[i].score,
                                   results[i].metadata)]]
                 /\ UNCHANGED <<call, ret>>
         ELSE /\ threads' = [threads EXCEPT ![t].pc = "done"]
              /\ call' = [op |-> "retrieve", thread |-> t,
                          question |-> input.args[t].question, n |-> input.args[t].n,
                          spec |-> input.args[t].spec, embed_ok |-> FALSE]
              /\ ret' = Raised
  /\ UNCHANGED <<loader, stream, storeVars, diskVars, filters, input, writer, reader>>

\* lines 70-75: the filtering and truncation, read from the shared filter, and
\* the return
RetrieveReturn(t) ==
  /\ input.kind = "threads"
  /\ threads[t].pc = "searched"
  /\ LET active == DictTruthy(input.args[t].spec) /\ HasActiveFilters(filters)
         sources == IF active
                      THEN Take(ApplyFilters(filters, threads[t].sources), input.args[t].n)
                      ELSE threads[t].sources
     IN /\ threads' = [threads EXCEPT ![t].pc = "done", ![t].sources = sources]
        /\ call' = [op |-> "retrieve", thread |-> t,
                    question |-> input.args[t].question, n |-> input.args[t].n,
                    spec |-> input.args[t].spec, embed_ok |-> TRUE]
        /\ ret' = Returned(sources)
  /\ UNCHANGED <<loader, stream, storeVars, diskVars, filters, input, writer, reader>>

\* an engine on a loaded collection, and the calls its threads are about to make
InitThreads ==
  /\ index = CorpusMem(ThreadCorpus).index
  /\ documents = CorpusMem(ThreadCorpus).documents
  /\ metadata = CorpusMem(ThreadCorpus).metadata
  /\ f_index = File(CorpusMem(ThreadCorpus).index)
  /\ f_docs = File(JsonDumpDocs(CorpusMem(ThreadCorpus).documents))
  /\ f_meta = File(JsonDumpMetas(CorpusMem(ThreadCorpus).metadata))
  /\ store_ok = TRUE
  /\ filters = EmptyFilters
  /\ input \in ThreadInputs
  /\ call = [op |-> "init"]
  /\ ret = Returned(<<>>)
  /\ threads = [t \in ThreadIds |-> NewThread]
  /\ writer = IdleWriter
  /\ reader = NoReader
  /\ loader = NoLoader
  /\ stream = NoStream

NextThreads ==
  \E t \in ThreadIds :
    \/ RetrieveSetFilters(t)
    \/ RetrieveFetchCount(t)
    \/ RetrieveSearch(t)
    \/ RetrieveReturn(t)

SpecThreads == InitThreads /\ [][NextThreads]_vars

----------------------------------------------------------------------------
(* add_texts next to readers.  The statements of add_texts and save run one    *)
(* after the other with nothing held: a thread that searches the same store     *)
(* object, or a process that constructs a store on the same directory, can run  *)
(* between any two of them.  Each file write is taken as one step.              *)

\* chunks already persisted when the add starts
OverlapSizes == {0, 1, 2}

OverlapInputs ==
  UNION {[kind : {"add"}, start : OverlapSizes, args : AddArgs(n)] : n \in 1..MaxBatch}

\* lines 93-96: embed_texts, then index.add; a failing gateway call raises
AddEmbedAndIndex ==
  /\ input.kind = "add"
  /\ writer.pc = "idle"
  /\ \E embed_ok \in BOOLEAN :
       IF embed_ok
         THEN /\ index' = index \o EmbedTexts(input.args.texts)
              /\ writer' = [pc |-> "indexed"]
              /\ UNCHANGED <<call, ret>>
         ELSE /\ writer' = [pc |-> "done"]
              /\ call' = [op |-> "add", texts |-> input.args.texts, embed_ok |-> FALSE,
                          stop |-> 0]
              /\ ret' = Raised
              /\ UNCHANGED index
  /\ UNCHANGED <<loader, stream, documents, metadata, store_ok, diskVars, filters, input, threads, reader>>

\* line 99: self.documents.extend(texts)
AddExtendDocuments ==
  /\ writer.pc = "indexed"
  /\ documents' = documents \o input.args.texts
  /\ writer' = [pc |-> "documents"]
  /\ UNCHANGED <<loader, stream, index, metadata, store_ok, diskVars, filters, input, call, ret, threads,
                 reader>>

\* lines 100-103: self.metadata.extend(...)
AddExtendMetadata ==
  /\ writer.pc = "documents"
  /\ metadata' = ExtendMetadata(metadata, input.args.texts, input.args.metadatas)
  /\ writer' = [pc |-> "metadata"]
  /\ UNCHANGED <<loader, stream, index, documents, store_ok, diskVars, filters, input, call, ret, threads,
                 reader>>

\* save, line 60: faiss.write_index
SaveIndex ==
  /\ writer.pc = "metadata"
  /\ f_index' = File(index)
  /\ writer' = [pc |-> "index_written"]
  /\ UNCHANGED <<loader, stream, storeVars, f_docs, f_meta, filters, input, call, ret, threads, reader>>

\* save, lines 62-63: documents.json
SaveDocuments ==
  /\ writer.pc = "index_written"
  /\ f_docs' = File(JsonDumpDocs(documents))
  /\ writer' = [pc |-> "documents_written"]
  /\ UNCHANGED <<loader, stream, storeVars, f_index, f_meta, filters, input, call, ret, threads, reader>>

\* save, lines 65-66: metadata.json; add_texts returns
SaveMetadata ==
  /\ writer.pc = "documents_written"
  /\ f_meta' = File(JsonDumpMetas(metadata))
  /\ writer' = [pc |-> "done"]
  /\ call' = [op |-> "add", texts |-> input.args.texts, embed_ok |-> TRUE, stop |-> 0]
  /\ ret' = Returned(<<>>)
  /\ UNCHANGED <<loader, stream, storeVars, f_index, f_docs, filters, input, threads, reader>>

\* another process constructs a store on the same persist directory
OpenSecondStore ==
  /\ input.kind = "add"
  /\ LET e == LoadEffect(curDisk)
     IN reader' = [open |-> TRUE, raised |-> e.raised, mem |-> e.mem]
  /\ UNCHANGED <<loader, stream, storeVars, diskVars, filters, input, call, ret, threads, writer>>

\* a store holding a persisted collection, and the add_texts call about to be made
InitOverlap ==
  /\ input \in OverlapInputs
  /\ index = CorpusMem(input.start).index
  /\ documents = CorpusMem(input.start).documents
  /\ metadata = CorpusMem(input.start).metadata
  /\ f_index = IF input.start = 0 THEN Absent ELSE File(index)
  /\ f_docs = IF input.start = 0 THEN Absent ELSE File(JsonDumpDocs(documents))
  /\ f_meta = IF input.start = 0 THEN Absent ELSE File(JsonDumpMetas(metadata))
  /\ store_ok = TRUE
  /\ filters = EmptyFilters
  /\ call = [op |-> "init"]
  /\ ret = Returned(<<>>)
  /\ NoTasks

NextOverlap ==
  \/ AddEmbedAndIndex
  \/ AddExtendDocuments
  \/ AddExtendMetadata
  \/ SaveIndex
  \/ SaveDocuments
  \/ SaveMetadata
  \/ Search
  \/ OpenSecondStore

SpecOverlap == InitOverlap /\ [][NextOverlap]_vars

----------------------------------------------------------------------------
(* MetadataEnhancer                                                            *)
(*                                                                             *)
(* A title or a transcript is the sequence of its words, which stand one blank *)
(* apart.  A regular expression of CATEGORY_PATTERNS is the set of its         *)
(* alternatives, an alternative the sequence of its word positions, a position *)
(* the set of words it accepts; \s* and \s+ between two positions meet the     *)
(* blank between two words.  The words of the model's titles and transcripts   *)
(* contain no pattern word or keyword other than themselves.                   *)

\* longest title and longest transcript, in words
MaxTitle == 3
MaxContent == 5

\* an optional text: has = FALSE is an absent key
NoText == [has |-> FALSE, words |-> <<>>]
Text(ws) == [has |-> TRUE, words |-> ws]

\* an optional integer: has = FALSE is an absent key
NoInt == [has |-> FALSE, v |-> 0]
Int_(n) == [has |-> TRUE, v |-> n]

\* str.lower(), and the case folding of re.IGNORECASE
Lower(w) ==
  CASE w = "Market" -> "market"
    [] w = "FOMC" -> "fomc"
    [] w = "Delta" -> "delta"
    [] OTHER -> w

\* the position \w+
AnyWord == {"\\w+"}

\* CATEGORY_PATTERNS, in the order of the dictionary
DailyUpdatePatterns ==
  << {<<{"market"}, {"update", "outlook", "recap", "review"}>>},
     {<<{"daily"}, {"update", "recap", "market"}>>},
     {<<{"monday", "tuesday", "wednesday", "thursday", "friday"},
        {"update", "market", "recap"}>>},
     {<<{"am", "pm"}, {"update", "market", "outlook"}>>},
     {<<{"open"}, {"interest"}>>},
     {<<{"gamma"}, {"update", "levels"}>>},
     {<<{"0dte"}>>, <<{"zero"}, {"dte"}>>} >>

EducationalPatterns ==
  << {<<{"what", "how", "why", "when"}, {"is", "are", "does", "do"}>>},
     {<<{"explained"}>>, <<{"explaining"}>>, <<{"explains"}>>},
     {<<{"introduction"}, {"to"}>>},
     {<<{"tutorial"}>>, <<{"guide"}>>, <<{"basics"}>>},
     {<<{"learn"}>>, <<{"learning"}>>, <<{"lesson"}>>},
     {<<{"101"}>>, <<{"beginner"}>>, <<{"fundamental"}>>},
     {<<{"understanding"}>>, <<{"understand"}>>} >>

InterviewPatterns ==
  << {<<{"interview"}>>, <<{"conversation"}>>, <<{"chat"}, {"with"}>>},
     {<<{"q"}, {"&"}, {"a"}>>, <<{"q"}, {"and"}, {"a"}>>},
     {<<{"ask"}, {"me"}, {"anything"}>>, <<{"ama"}>>},
     {<<{"guest"}>>, <<{"featuring"}>>, <<{"with"}, AnyWord, AnyWord>>},
     {<<{"discussion"}>>, <<{"discussing"}>>} >>

SpecialEventPatterns ==
  << {<<{"fomc"}>>, <<{"fed"}, {"meeting", "decision"}>>},
     {<<{"earnings"}>>, <<{"opex"}>>, <<{"options"}, {"expiration"}>>},
     {<<{"special"}, {"event", "report", "update"}>>},
     {<<{"breaking"}>>, <<{"alert"}>>, <<{"urgent"}>>},
     {<<{"year"}, {"end", "review"}>>, <<{"annual"}>>},
     {<<{"holiday"}>>, <<{"christmas"}>>, <<{"thanksgiving"}>>} >>

CATEGORY_PATTERNS ==
  << [category |-> "daily_update", patterns |-> DailyUpdatePatterns],
     [category |-> "educational", patterns |-> EducationalPatterns],
     [category |-> "interview", patterns |-> InterviewPatterns],
     [category |-> "special_event", patterns |-> SpecialEventPatterns] >>

\* one alternative matches the words that start at pos
AlternativeAt(alt, words, pos) ==
  /\ pos + Len(alt) - 1 <= Len(words)
  /\ \A i \in 1..Len(alt) :
       \/ alt[i] = AnyWord
       \/ Lower(words[pos + i - 1]) \in alt[i]

\* pattern.search(title)
PatternSearch(pattern, words) ==
  \E alt \in pattern : \E pos \in 1..Len(words) : AlternativeAt(alt, words, pos)

\* the two loops of _infer_category, from group g on
RECURSIVE InferLoop(_, _, _)
InferLoop(groups, words, g) ==
  IF g > Len(groups) THEN "uncategorized"
  ELSE IF \E i \in 1..Len(groups[g].patterns) : PatternSearch(groups[g].patterns[i], words)
    THEN groups[g].category
  ELSE InferLoop(groups, words, g + 1)

\* _infer_category that walks the groups from the last to the first
InferCategory_LastGroupFirst(title) ==
  IF ~title.has \/ title.words = <<>> THEN "uncategorized"
  ELSE InferLoop([g \in 1..Len(CATEGORY_PATTERNS) |->
                    CATEGORY_PATTERNS[Len(CATEGORY_PATTERNS) + 1 - g]],
                 title.words, 1)

\* _infer_category(enhanced.get('title', ''))
InferCategory(title) ==
  IF ~title.has \/ title.words = <<>> THEN "uncategorized"
  ELSE InferLoop(CATEGORY_PATTERNS, title.words, 1)

\* TECHNICAL_KEYWORDS, each keyword the sequence of its words
TECHNICAL_KEYWORDS ==
  << <<"gamma">>, <<"delta">>, <<"theta">>, <<"vega">>, <<"implied", "volatility">>,
     <<"iv">>, <<"options", "chain">>, <<"strike", "price">>, <<"expiration">>,
     <<"hedging">>, <<"dealer", "positioning">>, <<"market", "maker">>,
     <<"volatility", "surface">>, <<"put/call", "ratio">>, <<"open", "interest">>,
     <<"volume">>, <<"skew">>, <<"vix">>, <<"vwap">>, <<"standard", "deviation">>,
     <<"probability">> >>

\* keyword in content_lower
KeywordIn(keyword, words) ==
  \E pos \in 1..Len(words) :
    /\ pos + Len(keyword) - 1 <= Len(words)
    /\ \A i \in 1..Len(keyword) : Lower(words[pos + i - 1]) = keyword[i]

\* the tiers with low given to 40 <= wpm < 80 only
QualityTier_LowBelowEighty(wpm, tech_count) ==
  IF wpm >= 120 /\ tech_count >= 5 THEN "high"
  ELSE IF wpm >= 80 /\ tech_count >= 2 THEN "medium"
  ELSE IF wpm >= 40 /\ wpm < 80 THEN "low"
  ELSE "none"

\* lines 165-172 of _calculate_quality
QualityTier(wpm, tech_count) ==
  IF wpm >= 120 /\ tech_count >= 5 THEN "high"
  ELSE IF wpm >= 80 /\ tech_count >= 2 THEN "medium"
  ELSE IF wpm >= 40 THEN "low"
  ELSE "none"

\* _calculate_quality that scores a transcript without a duration as 'low'
CalculateQuality_NoDurationLow(words, duration) ==
  IF words = <<>> THEN [quality_score |-> "none", words_per_minute |-> 0,
                        technical_keyword_count |-> 0]
  ELSE IF duration = 0 THEN [quality_score |-> "low", words_per_minute |-> 0,
                             technical_keyword_count |-> 0]
  ELSE LET wpm == IF duration > 0 THEN (Len(words) * 60) \div duration ELSE 0
           tech_count == Cardinality({k \in 1..Len(TECHNICAL_KEYWORDS) :
                                        KeywordIn(TECHNICAL_KEYWORDS[k], words)})
       IN [quality_score |-> QualityTier(wpm, tech_count), words_per_minute |-> wpm,
           technical_keyword_count |-> tech_count]

\* _calculate_quality(content, duration).  wpm is int(word_count / (duration / 60.0)),
\* which for the lengths and durations of the model is the integer quotient.
CalculateQuality(words, duration) ==
  IF words = <<>> \/ duration = 0
    THEN [quality_score |-> "none", words_per_minute |-> 0, technical_keyword_count |-> 0]
  ELSE LET wpm == IF duration > 0 THEN (Len(words) * 60) \div duration ELSE 0
           tech_count == Cardinality({k \in 1..Len(TECHNICAL_KEYWORDS) :
                                        KeywordIn(TECHNICAL_KEYWORDS[k], words)})
       IN [quality_score |-> QualityTier(wpm, tech_count), words_per_minute |-> wpm,
           technical_keyword_count |-> tech_count]

\* a date string handed to _parse_date: s is the date it names; form "iso" has a
\* time after a 'T', form "ymd" is year-month-day, form "other" parses as neither
NoPublishedAt == [has |-> FALSE, form |-> "ymd", s |-> <<>>]
PublishedAt(form, s) == [has |-> TRUE, form |-> form, s |-> s]

\* _parse_date(date_str): the date without the time, or the string as it came
ParseDate(p) == Date(p.s)

\* a metadata dictionary handed to enhance_metadata, none of the keys that
\* enhance_metadata adds being present
RawMetadata(title, content, duration, has_captions, published_at) ==
  [title |-> title, content |-> content, duration |-> duration,
   has_captions |-> has_captions, published_at |-> published_at,
   category |-> Missing, quality_score |-> Missing, words_per_minute |-> NoInt,
   technical_keyword_count |-> NoInt, published_date |-> NoDate,
   metadata_enhanced_at |-> NoInt]

\* enhance_metadata that scores a dictionary only when it holds no score yet
EnhanceMetadata_ScoreOnce(m, now) ==
  LET quality == IF m.content.has /\ m.quality_score = Missing
                   THEN CalculateQuality(m.content.words,
                                         IF m.duration.has THEN m.duration.v ELSE 0)
                   ELSE [quality_score |-> "unknown", words_per_minute |-> 0,
                         technical_keyword_count |-> 0]
  IN [m EXCEPT
        !.has_captions = IF m.has_captions = Missing THEN PyFalse ELSE m.has_captions,
        !.category = InferCategory(m.title),
        !.quality_score = quality.quality_score,
        !.words_per_minute = Int_(quality.words_per_minute),
        !.technical_keyword_count = Int_(quality.technical_keyword_count),
        !.published_date = IF m.published_at.has THEN ParseDate(m.published_at)
                           ELSE m.published_date,
        !.metadata_enhanced_at = Int_(now)]

\* enhance_metadata(doc_metadata) at time now
EnhanceMetadata(m, now) ==
  LET quality == IF m.content.has
                   THEN CalculateQuality(m.content.words,
                                         IF m.duration.has THEN m.duration.v ELSE 0)
                   ELSE [quality_score |-> "unknown", words_per_minute |-> 0,
                         technical_keyword_count |-> 0]
  IN [m EXCEPT
        !.has_captions = IF m.has_captions = Missing THEN PyFalse ELSE m.has_captions,
        !.category = InferCategory(m.title),
        !.quality_score = quality.quality_score,
        !.words_per_minute = Int_(quality.words_per_minute),
        !.technical_keyword_count = Int_(quality.technical_keyword_count),
        !.published_date = IF m.published_at.has THEN ParseDate(m.published_at)
                           ELSE m.published_date,
        !.metadata_enhanced_at = Int_(now)]

\* enhance_metadata that writes into the dictionary it was handed
EnhanceEffect_InPlace(m, now) ==
  [doc_metadata |-> EnhanceMetadata(m, now), enhanced |-> EnhanceMetadata(m, now)]

\* a call of enhance_metadata: what it returns, and the caller's dictionary
\* after it; every write goes to the copy made on entry
EnhanceEffect(m, now) ==
  [doc_metadata |-> m, enhanced |-> EnhanceMetadata(m, now)]

\* the keys get_filter_statistics starts its counters with
StatCategories ==
  {CATEGORY_PATTERNS[g].category : g \in 1..Len(CATEGORY_PATTERNS)} \cup {"uncategorized"}
StatQualities == {"high", "medium", "low", "none", "unknown"}

\* round(100 * with_captions / total_documents, 1), in tenths of a percent
RoundedPercentage(with_captions, total) == (2000 * with_captions + total) \div (2 * total)

\* lines 212-236 of get_filter_statistics: the counters before the loop
NewStatistics(docs) ==
  [total_documents |-> Len(docs),
   categories |-> [c \in StatCategories |-> 0],
   quality_levels |-> [q \in StatQualities |-> 0],
   caption_coverage |-> [with_captions |-> 0, without_captions |-> 0, percentage |-> 0],
   date_range |-> [earliest |-> NoDate, latest |-> NoDate]]

\* the loop body that counts a document without a category under no category
StatisticsStep_NoDefaultCategory(stats, md) ==
  LET quality == IF md.quality_score = Missing THEN "unknown" ELSE md.quality_score
      captioned == md.has_captions = PyTrue
      pub_date == md.published_date
      dated == StrTruthy(pub_date)
      earliest == stats.date_range.earliest
      latest == stats.date_range.latest
  IN [stats EXCEPT
        !.categories = IF md.category \in DOMAIN stats.categories
                         THEN [stats.categories EXCEPT ![md.category] = @ + 1]
                         ELSE stats.categories,
        !.quality_levels = IF quality \in DOMAIN stats.quality_levels
                             THEN [stats.quality_levels EXCEPT ![quality] = @ + 1]
                             ELSE stats.quality_levels,
        !.caption_coverage.with_captions = IF captioned THEN @ + 1 ELSE @,
        !.caption_coverage.without_captions = IF captioned THEN @ ELSE @ + 1,
        !.date_range.earliest =
           IF dated /\ (~StrTruthy(earliest) \/ StrLess(pub_date.s, earliest.s))
             THEN pub_date ELSE @,
        !.date_range.latest =
           IF dated /\ (~StrTruthy(latest) \/ StrLess(latest.s, pub_date.s))
             THEN pub_date ELSE @]

\* lines 238-263: the body of the loop, for a document whose metadata is md
StatisticsStep(stats, md) ==
  LET category == IF md.category = Missing THEN "uncategorized" ELSE md.category
      quality == IF md.quality_score = Missing THEN "unknown" ELSE md.quality_score
      captioned == md.has_captions = PyTrue
      pub_date == md.published_date
      dated == StrTruthy(pub_date)
      earliest == stats.date_range.earliest
      latest == stats.date_range.latest
  IN [stats EXCEPT
        !.categories = IF category \in DOMAIN stats.categories
                         THEN [stats.categories EXCEPT ![category] = @ + 1]
                         ELSE stats.categories,
        !.quality_levels = IF quality \in DOMAIN stats.quality_levels
                             THEN [stats.quality_levels EXCEPT ![quality] = @ + 1]
                             ELSE stats.quality_levels,
        !.caption_coverage.with_captions = IF captioned THEN @ + 1 ELSE @,
        !.caption_coverage.without_captions = IF captioned THEN @ ELSE @ + 1,
        !.date_range.earliest =
           IF dated /\ (~StrTruthy(earliest) \/ StrLess(pub_date.s, earliest.s))
             THEN pub_date ELSE @,
        !.date_range.latest =
           IF dated /\ (~StrTruthy(latest) \/ StrLess(latest.s, pub_date.s))
             THEN pub_date ELSE @]

RECURSIVE StatisticsLoop(_, _, _)
StatisticsLoop(stats, docs, i) ==
  IF i > Len(docs) THEN stats
  ELSE StatisticsLoop(StatisticsStep(stats, docs[i]), docs, i + 1)

\* get_filter_statistics(documents); docs holds the metadata of each document
GetFilterStatistics(docs) ==
  LET stats == StatisticsLoop(NewStatistics(docs), docs, 1)
  IN [stats EXCEPT
        !.caption_coverage.percentage =
           IF stats.total_documents > 0
             THEN RoundedPercentage(stats.caption_coverage.with_captions,
                                    stats.total_documents)
             ELSE @]

\* largest words_per_minute and technical_keyword_count the tiers are tried on
MaxWpm == 125
MaxTech == 6
\* longest sample handed to get_filter_statistics
MaxSample == 3

\* the words of the titles: words of all four groups, in both cases, and one of none
TitleWords == {"Market", "update", "how", "is", "interview", "with", "FOMC", "random"}

Titles == {NoText} \cup {Text(ws) : ws \in SeqsUpTo(TitleWords, MaxTitle)}

\* transcripts, of five keywords in both cases and a word that is none; the
\* content of a video is a stretch of at most MaxContent words of one of them
Transcripts ==
  {<<"gamma", "Delta", "theta", "vega", "iv", "the", "the">>,
   <<"the", "gamma", "the", "the", "Delta", "the", "the">>,
   <<"gamma", "gamma", "Delta", "gamma", "iv", "vega", "theta">>,
   <<"the", "the", "the", "the", "the", "the", "the">>}

Contents ==
  {NoText} \cup
  {Text(SubSeq(x.t, x.a, x.b)) :
     x \in {y \in [t : Transcripts, a : 1..7, b : 0..7] : y.b - y.a < MaxContent}}

Durations == {NoInt} \cup {Int_(d) : d \in -1..4}

PublishedAts == {NoPublishedAt, PublishedAt("iso", D1), PublishedAt("other", D3)}

\* the metadata dictionaries of the sample handed to get_filter_statistics
SampleMetas ==
  {EmptyMeta,
   CaptionedMeta,
   [EmptyMeta EXCEPT !.has_captions = PyFalse, !.category = "daily_update",
                     !.quality_score = "medium", !.published_date = Date(D1)],
   [EmptyMeta EXCEPT !.has_captions = PyTrue, !.category = "uncategorized",
                     !.quality_score = "unknown", !.published_date = Date(<<>>)],
   [EmptyMeta EXCEPT !.category = "interview", !.quality_score = "none",
                     !.published_date = Date(D3)],
   [EmptyMeta EXCEPT !.has_captions = PyTrue, !.category = "special_event",
                     !.quality_score = "low"]}

\* dictionaries that hold derived keys from an enhancement made before the
\* title or the date changed
StaleMetas ==
  {[RawMetadata(Text(<<"random">>), NoText, NoInt, PyTrue, NoPublishedAt)
      EXCEPT !.category = "interview", !.quality_score = "low",
             !.published_date = Date(D2), !.metadata_enhanced_at = Int_(0)],
   [RawMetadata(Text(<<"FOMC">>), Text(<<"gamma", "Delta">>), Int_(1), PyFalse,
                PublishedAt("iso", D1))
      EXCEPT !.category = "special_event", !.quality_score = "none",
             !.words_per_minute = Int_(0), !.technical_keyword_count = Int_(0),
             !.published_date = Date(D3), !.metadata_enhanced_at = Int_(0)]}

\* the arguments of one run of the enhancer
EnhancerInputs ==
  {[kind |-> "enhance", now |-> 1,
    metadata |-> RawMetadata(title, NoText, NoInt, captions, published_at)] :
     title \in Titles, captions \in {Missing, PyTrue}, published_at \in PublishedAts}
  \cup {[kind |-> "enhance", now |-> 1,
         metadata |-> RawMetadata(Text(<<"random">>), content, duration, Missing,
                                  NoPublishedAt)] :
          content \in Contents, duration \in Durations}
  \cup {[kind |-> "enhance", now |-> 1, metadata |-> m] : m \in StaleMetas}
  \cup {[kind |-> "tier", wpm |-> wpm, tech_count |-> tech_count] :
          wpm \in 0..MaxWpm, tech_count \in 0..MaxTech}
  \cup {[kind |-> "statistics", documents |-> docs] :
          docs \in SeqsUpTo(SampleMetas, MaxSample)}

\* enhance_metadata(doc_metadata)
Enhance ==
  /\ input.kind = "enhance"
  /\ LET e == EnhanceEffect(input.metadata, input.now)
     IN /\ call' = [op |-> "enhance", again |-> FALSE, metadata |-> input.metadata,
                    left |-> e.doc_metadata]
        /\ ret' = Returned(e.enhanced)
  /\ UNCHANGED <<taskVars, storeVars, diskVars, filters, input>>

\* enhance_metadata on the dictionary the call before returned, a moment later
EnhanceAgain ==
  /\ input.kind = "enhance"
  /\ call.op = "enhance"
  /\ ~call.again
  /\ LET e == EnhanceEffect(ret.value, input.now + 1)
     IN /\ call' = [op |-> "enhance", again |-> TRUE, metadata |-> ret.value,
                    left |-> e.doc_metadata]
        /\ ret' = Returned(e.enhanced)
  /\ UNCHANGED <<taskVars, storeVars, diskVars, filters, input>>

\* the tiering of _calculate_quality on a words_per_minute and a keyword count
Tier ==
  /\ input.kind = "tier"
  /\ call' = [op |-> "tier", wpm |-> input.wpm, tech_count |-> input.tech_count]
  /\ ret' = Returned(QualityTier(input.wpm, input.tech_count))
  /\ UNCHANGED <<taskVars, storeVars, diskVars, filters, input>>

\* get_filter_statistics(documents)
Statistics ==
  /\ input.kind = "statistics"
  /\ call' = [op |-> "statistics", documents |-> input.documents]
  /\ ret' = Returned(GetFilterStatistics(input.documents))
  /\ UNCHANGED <<taskVars, storeVars, diskVars, filters, input>>

\* a new MetadataEnhancer, and the arguments its calls will be made with
InitEnhancer ==
  /\ index = <<>>
  /\ documents = <<>>
  /\ metadata = <<>>
  /\ store_ok = TRUE
  /\ f_index = Absent
  /\ f_docs = Absent
  /\ f_meta = Absent
  /\ filters = EmptyFilters
  /\ input \in EnhancerInputs
  /\ call = [op |-> "init"]
  /\ ret = Returned(<<>>)
  /\ NoTasks

NextEnhancer ==
  \/ Enhance
  \/ EnhanceAgain
  \/ Tier
  \/ Statistics

SpecEnhancer == InitEnhancer /\ [][NextEnhancer]_vars

----------------------------------------------------------------------------
(* RAGEngine.get_filter_statistics: the statistics of the filter options         *)
(* endpoint, computed over the nearest chunks of the empty query.                *)

\* chunks of the largest small collection the statistics are asked of
MaxChunks == 3

\* sample_size
SampleSize == 1000

\* the empty string handed to the search, and where the gateway embeds it
EmptyQuery == 0

\* metadata.get('video_id', metadata.get('source', ''))
DocumentKey(md) ==
  IF md.video_id # Missing THEN md.video_id
  ELSE IF md.source # Missing THEN md.source
  ELSE ""

\* the loop over the results: the metadata of the first result of each key
UniqueDocs(results) ==
  LET keys == [i \in 1..Len(results) |-> DocumentKey(results[i].metadata)]
      First(i) == keys[i] # "" /\ \A j \in 1..(i - 1) : keys[j] # keys[i]
      firsts == SelectSeq([i \in 1..Len(results) |-> i], First)
  IN [p \in 1..Len(firsts) |-> results[firsts[p]].metadata]

\* get_filter_statistics() on an engine whose vector store is mem
EngineFilterStatistics(mem) ==
  LET results == SimilaritySearchWithScore(mem.index, mem.documents, mem.metadata,
                                           EmptyQuery, SampleSize)
  IN GetFilterStatistics(UniqueDocs(results))

\* the metadata stored with the chunks of four source documents: two videos
\* the loader ingested, one document known by its source only, and chunks
\* added with neither key
ChunkMetas ==
  {LoaderMetadata("v1", VideoPlaylists),
   [LoaderMetadata("v2", <<>>) EXCEPT !.category = "educational", !.quality_score = "high",
                                      !.published_date = Date(D2)],
   [EmptyMeta EXCEPT !.source = "s3", !.has_captions = PyFalse, !.category = "interview",
                     !.quality_score = "low", !.published_date = Date(D1)],
   EmptyMeta}

\* a store holding one chunk per entry of metas, the later chunks nearer to
\* the point of the empty query
ChunksMem(metas) ==
  LET texts == [i \in 1..Len(metas) |-> Len(metas) + 1 - i]
  IN Mem(EmbedTexts(texts), texts, metas)

\* a collection of one chunk more than the sample holds: the first chunk is
\* the only one of video v1, the others are chunks of video v2
LargeCollection ==
  [i \in 1..(SampleSize + 1) |->
     IF i = 1 THEN LoaderMetadata("v1", VideoPlaylists)
     ELSE [LoaderMetadata("v2", <<>>) EXCEPT !.category = "educational",
                                             !.quality_score = "high",
                                             !.published_date = Date(D2)]]

Collections == SeqsUpTo(ChunkMetas, MaxChunks) \cup {LargeCollection}

\* get_filter_statistics(); embed_ok is the outcome of the gateway call that
\* embeds the empty query
FilterStatistics ==
  /\ input.kind = "filter_statistics"
  /\ store_ok
  /\ \E embed_ok \in BOOLEAN :
       /\ call' = [op |-> "filter_statistics", embed_ok |-> embed_ok]
       /\ ret' = IF embed_ok THEN Returned(EngineFilterStatistics(curMem)) ELSE Raised
  /\ UNCHANGED <<taskVars, storeVars, diskVars, filters, input>>

\* an engine started on a persisted collection
InitStatistics ==
  /\ \E metas \in Collections :
       /\ index = ChunksMem(metas).index
       /\ documents = ChunksMem(metas).documents
       /\ metadata = ChunksMem(metas).metadata
       /\ f_index = IF metas = <<>> THEN Absent ELSE File(ChunksMem(metas).index)
       /\ f_docs = IF metas = <<>> THEN Absent
                   ELSE File(JsonDumpDocs(ChunksMem(metas).documents))
       /\ f_meta = IF metas = <<>> THEN Absent
                   ELSE File(JsonDumpMetas(ChunksMem(metas).metadata))
  /\ store_ok = TRUE
  /\ filters = EmptyFilters
  /\ input = [kind |-> "filter_statistics"]
  /\ call = [op |-> "init"]
  /\ ret = Returned(<<>>)
  /\ NoTasks

NextStatistics == FilterStatistics

SpecStatistics == InitStatistics /\ [][NextStatistics]_vars

----------------------------------------------------------------------------
(* The calls that read: an engine on a persisted collection serves searches,   *)
(* statistics and retrievals, and its filter is applied to result lists.       *)

\* the arguments of one run of reads
ReadInputs ==
  {i \in EngineInputs : i.n \in {1, MaxN} /\ i.earlier = NoneFilters}
    \cup {[kind |-> "filter", spec |-> f, documents |-> docs] :
            f \in FirstSpecs, docs \in SeqsUpTo(SmallPool, MaxResults)}
    \cup {[kind |-> "filter_statistics"]}

InitReads ==
  /\ \E size \in CorpusSizes :
       /\ index = CorpusMem(size).index
       /\ documents = CorpusMem(size).documents
       /\ metadata = CorpusMem(size).metadata
       /\ f_index = IF size = 0 THEN Absent ELSE File(CorpusMem(size).index)
       /\ f_docs = IF size = 0 THEN Absent ELSE File(JsonDumpDocs(CorpusMem(size).documents))
       /\ f_meta = IF size = 0 THEN Absent ELSE File(JsonDumpMetas(CorpusMem(size).metadata))
  /\ store_ok = TRUE
  /\ filters = EmptyFilters
  /\ input \in ReadInputs
  /\ call = [op |-> "init"]
  /\ ret = Returned(<<>>)
  /\ NoTasks

NextReads ==
  \/ Search
  \/ Stats
  \/ Retrieve
  \/ SetFilters
  \/ ApplyFiltersCall
  \/ FilterStatistics

SpecReads == InitReads /\ [][NextReads]_vars

----------------------------------------------------------------------------
(* delete_collection cut short: the process stops in the loop that removes the *)
(* three files, and a store is opened on the directory afterwards.             *)

\* the three paths in the order delete_collection removes them
ResetPaths == <<"faiss.index", "documents.json", "metadata.json">>

\* the loop of delete_collection in the reverse order
DeleteCollectionStopped_MetadataFirst(disk, passed) ==
  Disk(IF passed >= 3 THEN Absent ELSE disk.f_index,
       IF passed >= 2 THEN Absent ELSE disk.f_docs,
       IF passed >= 1 THEN Absent ELSE disk.f_meta)

\* the files after the loop of delete_collection has passed the first `passed`
\* paths: the index file, then documents.json, then metadata.json
DeleteCollectionStopped(disk, passed) ==
  Disk(IF passed >= 1 THEN Absent ELSE disk.f_index,
       IF passed >= 2 THEN Absent ELSE disk.f_docs,
       IF passed >= 3 THEN Absent ELSE disk.f_meta)

\* delete_collection() during which the process stops, after input.passed paths
ResetStops ==
  /\ input.kind = "reset"
  /\ store_ok
  /\ SetMem(EmptyMem)
  /\ SetDisk(DeleteCollectionStopped(curDisk, input.passed))
  /\ store_ok' = FALSE
  /\ call' = [op |-> "reset_stops", passed |-> input.passed, chunks |-> Len(documents)]
  /\ ret' = Raised
  /\ UNCHANGED <<taskVars, filters, input>>

\* a store on a persisted collection, and the point where its reset will stop
InitReset ==
  /\ \E size \in 1..MaxDocs - 1 :
       /\ index = CorpusMem(size).index
       /\ documents = CorpusMem(size).documents
       /\ metadata = CorpusMem(size).metadata
       /\ f_index = File(CorpusMem(size).index)
       /\ f_docs = File(JsonDumpDocs(CorpusMem(size).documents))
       /\ f_meta = File(JsonDumpMetas(CorpusMem(size).metadata))
  /\ store_ok = TRUE
  /\ filters = EmptyFilters
  /\ input \in [kind : {"reset"}, passed : 0..Len(ResetPaths)]
  /\ call = [op |-> "init"]
  /\ ret = Returned(<<>>)
  /\ NoTasks

NextReset ==
  \/ AddTexts
  \/ ResetStops
  \/ OpenStore

SpecReset == InitReset /\ [][NextReset]_vars

----------------------------------------------------------------------------
(* The batch loader (document_loader_faiss.py): one run constructs a store on  *)
(* the persist directory, reads loaded.json, and ingests every caption file    *)
(* that is not in it, one file per pass of its loop.                           *)

\* caption files in the captions folder
MaxFiles == 2

\* runs of the loader, one after the other
MaxRuns == 2

\* the caption files by the video ids that start their names, in sorted order
CaptionNames == <<"v1", "v2", "v3", "v4">>
CaptionFiles == SubSeq(CaptionNames, 1, MaxFiles)

\* _split_text(content): the chunks of a caption file, two for the first file
\* and one for the others
SplitText(file) ==
  CASE file = "v1" -> <<11, 12>>
    [] file = "v2" -> <<21>>
    [] file = "v3" -> <<31>>
    [] OTHER -> <<41>>

\* how a pass of the loop goes: nothing fails (step "none"), reading or
\* enhancing the file raises ("read"), the embedding call of add_texts raises
\* ("embed"), a write of save raises at stop ("save"), or the write of
\* loaded.json raises ("dump")
LoaderOutcomes ==
  [step : {"none", "read", "embed", "dump"}, stop : {0}]
    \cup [step : {"save"}, stop : SaveStops]

\* where the process can stop within a pass: at a write of save ("save"),
\* between add_text and the write of loaded.json ("added"), or during the write
\* of loaded.json ("dump")
LoaderStopPoints ==
  [step : {"added", "dump"}, stop : {0}] \cup [step : {"save"}, stop : SaveStops]

\* a loader process that has not run
IdleLoader ==
  [pc |-> "idle", run |-> 0, files |-> <<>>, loaded |-> <<>>, loaded_json |-> Absent,
   todo |-> <<>>, failed |-> {}, added |-> {}]

\* the start of main: the store is loaded, loaded.json is read, and all_files
\* is the sorted list of the caption files not in it
StartLoader(l, disk) ==
  LET e == LoadEffect(disk)
      raised == e.raised \/ l.loaded_json.state = "corrupt"
      loaded == IF l.loaded_json.state = "ok" THEN l.loaded_json.data ELSE <<>>
      NotLoaded(f) == ~InList(f, loaded)
      all_files == SelectSeq(CaptionFiles, NotLoaded)
  IN [mem |-> e.mem,
      raised |-> raised,
      loader |-> IF raised
                   THEN [l EXCEPT !.pc = "aborted", !.run = l.run + 1, !.files = <<>>,
                                  !.loaded = <<>>, !.todo = <<>>, !.failed = {},
                                  !.added = {}]
                   ELSE [l EXCEPT !.pc = IF all_files = <<>> THEN "done" ELSE "running",
                                  !.run = l.run + 1, !.files = all_files,
                                  !.loaded = loaded, !.todo = all_files, !.failed = {},
                                  !.added = {}]]

\* add_text(content, metadata): the arguments of add_texts for a file
FileArgs(file) ==
  [texts |-> SplitText(file),
   metadatas |-> List([i \in 1..Len(SplitText(file)) |-> LoaderMetadata(file, <<>>)])]

\* a pass of the loop without its try: the first exception ends the run
IngestFile_NoTry(l, mem, disk, o) ==
  LET file == Head(l.files)
      add == AddTextsEffect(mem, disk, FileArgs(file), o.step # "embed",
                            IF o.step = "save" THEN o.stop ELSE 0)
      rest == Tail(l.files)
  IN IF o.step = "read"
       THEN [mem |-> mem, disk |-> disk, raised |-> TRUE,
             loader |-> [l EXCEPT !.files = rest, !.failed = @ \cup {file},
                                  !.pc = "done"]]
     ELSE IF add.raised
       THEN [mem |-> add.mem, disk |-> add.disk, raised |-> TRUE,
             loader |-> [l EXCEPT !.files = rest, !.failed = @ \cup {file},
                                  !.pc = "done"]]
     ELSE [mem |-> add.mem, disk |-> add.disk, raised |-> o.step = "dump",
           loader |-> [l EXCEPT !.files = rest, !.added = @ \cup {file},
                                !.loaded = Append(@, file),
                                !.loaded_json = IF o.step = "dump" THEN Corrupt
                                                ELSE File(Append(l.loaded, file)),
                                !.pc = IF rest = <<>> \/ o.step = "dump" THEN "done"
                                       ELSE "running"]]

\* a pass of the loop on the first of the remaining files: the file is read
\* and enhanced, add_text adds its chunks, the file is appended to loaded and
\* loaded.json is written; an exception ends the pass and the loop goes on
IngestFile(l, mem, disk, o) ==
  LET file == Head(l.files)
      add == AddTextsEffect(mem, disk, FileArgs(file), o.step # "embed",
                            IF o.step = "save" THEN o.stop ELSE 0)
      rest == Tail(l.files)
      pc == IF rest = <<>> THEN "done" ELSE "running"
  IN IF o.step = "read"
       THEN [mem |-> mem, disk |-> disk, raised |-> TRUE,
             loader |-> [l EXCEPT !.files = rest, !.failed = @ \cup {file}, !.pc = pc]]
     ELSE IF add.raised
       THEN [mem |-> add.mem, disk |-> add.disk, raised |-> TRUE,
             loader |-> [l EXCEPT !.files = rest, !.failed = @ \cup {file}, !.pc = pc]]
     ELSE [mem |-> add.mem, disk |-> add.disk, raised |-> o.step = "dump",
           loader |-> [l EXCEPT !.files = rest, !.added = @ \cup {file},
                                !.loaded = Append(@, file),
                                !.loaded_json = IF o.step = "dump" THEN Corrupt
                                                ELSE File(Append(l.loaded, file)),
                                !.pc = pc]]

\* the process stops within the pass on the first of the remaining files
StopInFile(l, mem, disk, p) ==
  LET file == Head(l.files)
      add == AddTextsEffect(mem, disk, FileArgs(file), TRUE,
                            IF p.step = "save" THEN p.stop ELSE 0)
  IN [disk |-> add.disk,
      loader |-> [l EXCEPT !.pc = "stopped", !.files = <<>>, !.loaded = <<>>,
                           !.loaded_json = IF p.step = "dump" THEN Corrupt ELSE @]]

\* python document_loader_faiss.py
LoaderStart ==
  /\ loader.pc \in {"idle", "done", "aborted", "stopped"}
  /\ loader.run < MaxRuns
  /\ LET e == StartLoader(loader, curDisk)
     IN /\ SetMem(e.mem)
        /\ store_ok' = ~e.raised
        /\ loader' = e.loader
        /\ ret' = IF e.raised THEN Raised ELSE Returned(<<>>)
  /\ call' = [op |-> "loader_start"]
  /\ UNCHANGED <<threads, writer, reader, stream, diskVars, filters, input>>

\* one pass of the loop
LoaderFile ==
  /\ loader.pc = "running"
  /\ \E o \in LoaderOutcomes :
       LET e == IngestFile(loader, curMem, curDisk, o)
       IN /\ SetMem(e.mem)
          /\ SetDisk(e.disk)
          /\ loader' = e.loader
          /\ call' = [op |-> "loader_file", file |-> Head(loader.files), outcome |-> o]
          /\ ret' = IF e.raised THEN Raised ELSE Returned(<<>>)
  /\ UNCHANGED <<threads, writer, reader, stream, store_ok, filters, input>>

\* the process is stopped within a pass
LoaderStops ==
  /\ loader.pc = "running"
  /\ \E p \in LoaderStopPoints :
       LET e == StopInFile(loader, curMem, curDisk, p)
       IN /\ SetMem(EmptyMem)
          /\ SetDisk(e.disk)
          /\ loader' = e.loader
          /\ call' = [op |-> "loader_stops", file |-> Head(loader.files), point |-> p]
          /\ ret' = Raised
  /\ store_ok' = FALSE
  /\ UNCHANGED <<threads, writer, reader, stream, filters, input>>

\* an empty persist directory, no loaded.json, and the caption files in place
InitLoader ==
  /\ index = <<>>
  /\ documents = <<>>
  /\ metadata = <<>>
  /\ store_ok = FALSE
  /\ f_index = Absent
  /\ f_docs = Absent
  /\ f_meta = Absent
  /\ filters = EmptyFilters
  /\ input = [kind |-> "loader"]
  /\ call = [op |-> "init"]
  /\ ret = Returned(<<>>)
  /\ threads = NoThreads
  /\ writer = IdleWriter
  /\ reader = NoReader
  /\ loader = IdleLoader
  /\ stream = NoStream

NextLoader ==
  \/ LoaderStart
  \/ LoaderFile
  \/ LoaderStops

SpecLoader == InitLoader /\ [][NextLoader]_vars

----------------------------------------------------------------------------
(* /api/ask/stream (main.py): the generator sends one source event for each    *)
(* retrieved source, then one token event for each token of the provider's     *)
(* stream, then a done event; an exception raised anywhere in its try block is *)
(* answered by an error event.                                                 *)

\* tokens in the longest answer a provider streams
MaxTokens == 2

\* StreamChunk(type, content)
StreamChunk(type, content) == [type |-> type, content |-> content]

\* the generator after an exception that is answered by error and then by done
OnException_ThenDone(s) ==
  [s EXCEPT !.events = @ \o <<StreamChunk("error", 500), StreamChunk("done", 0)>>,
            !.raised = TRUE, !.pc = "closed"]

\* the except branch of generate: an error event, and the generator is over
OnException(s) ==
  [s EXCEPT !.events = Append(@, StreamChunk("error", 500)), !.raised = TRUE,
            !.pc = "closed"]

\* a request arrives and the generator is created
StreamOpen ==
  /\ input.kind = "retrieve"
  /\ stream.pc = "none"
  /\ stream' = [pc |-> "retrieve", events |-> <<>>, sources |-> <<>>, sent |-> 0,
                tokens |-> 0, raised |-> FALSE]
  /\ call' = [op |-> "ask_stream"]
  /\ ret' = Returned(<<>>)
  /\ UNCHANGED <<threads, writer, reader, loader, storeVars, diskVars, filters, input>>

\* sources = rag_engine.retrieve_sources(question, num_sources, filters)
StreamRetrieve ==
  /\ stream.pc = "retrieve"
  /\ store_ok
  /\ \E embed_ok \in BOOLEAN :
       LET e == RetrieveSources(filters, curMem, input.question, input.n, input.spec)
       IN /\ filters' = e.filters
          /\ stream' = IF embed_ok
                          THEN [stream EXCEPT !.sources = e.sources, !.pc = "sources"]
                          ELSE OnException(stream)
          /\ call' = [op |-> "stream_retrieve", embed_ok |-> embed_ok]
          /\ ret' = IF embed_ok THEN Returned(e.sources) ELSE Raised
  /\ UNCHANGED <<threads, writer, reader, loader, storeVars, diskVars, input>>

\* one pass of the loop over the sources: a source event is sent
StreamSource ==
  /\ stream.pc = "sources"
  /\ stream.sent < Len(stream.sources)
  /\ stream' = [stream EXCEPT
                  !.events = Append(@, StreamChunk("source",
                                                   stream.sources[stream.sent + 1].content)),
                  !.sent = @ + 1]
  /\ call' = [op |-> "stream_source"]
  /\ ret' = Returned(<<>>)
  /\ UNCHANGED <<threads, writer, reader, loader, storeVars, diskVars, filters, input>>

\* after the last source: build_context, and the provider's stream is started;
\* ok is whether the provider could be reached
StreamContext ==
  /\ stream.pc = "sources"
  /\ stream.sent = Len(stream.sources)
  /\ \E ok \in BOOLEAN :
       /\ stream' = IF ok THEN [stream EXCEPT !.pc = "tokens"] ELSE OnException(stream)
       /\ call' = [op |-> "stream_context", ok |-> ok]
       /\ ret' = IF ok THEN Returned(<<>>) ELSE Raised
  /\ UNCHANGED <<threads, writer, reader, loader, storeVars, diskVars, filters, input>>

\* one step of the loop over the provider's stream: a token is sent, or the
\* provider's stream is over and done is sent, or the provider raises
StreamToken ==
  /\ stream.pc = "tokens"
  /\ \E step \in {"token", "end", "raise"} :
       /\ step = "token" => stream.tokens < MaxTokens
       /\ stream' =
            CASE step = "token" ->
                   [stream EXCEPT !.events = Append(@, StreamChunk("token", stream.tokens)),
                                  !.tokens = @ + 1]
              [] step = "end" ->
                   [stream EXCEPT !.events = Append(@, StreamChunk("done", 0)),
                                  !.pc = "closed"]
              [] OTHER -> OnException(stream)
       /\ call' = [op |-> "stream_token", step |-> step]
       /\ ret' = IF step = "raise" THEN Raised ELSE Returned(<<>>)
  /\ UNCHANGED <<threads, writer, reader, loader, storeVars, diskVars, filters, input>>

\* the requests of the stream endpoint
StreamInputs ==
  {i \in EngineInputs : i.n \in 1..2 /\ i.question = 1 /\ i.earlier = NoneFilters}

\* the application started on a persisted collection
InitStream ==
  /\ \E size \in {0, 2} :
       /\ index = CorpusMem(size).index
       /\ documents = CorpusMem(size).documents
       /\ metadata = CorpusMem(size).metadata
       /\ f_index = IF size = 0 THEN Absent ELSE File(CorpusMem(size).index)
       /\ f_docs = IF size = 0 THEN Absent ELSE File(JsonDumpDocs(CorpusMem(size).documents))
       /\ f_meta = IF size = 0 THEN Absent ELSE File(JsonDumpMetas(CorpusMem(size).metadata))
  /\ store_ok = TRUE
  /\ filters = EmptyFilters
  /\ input \in StreamInputs
  /\ call = [op |-> "init"]
  /\ ret = Returned(<<>>)
  /\ NoTasks

NextStream ==
  \/ StreamOpen
  \/ StreamRetrieve
  \/ StreamSource
  \/ StreamContext
  \/ StreamToken

\* the event loop runs the generator for as long as it has a step to take
SpecStream == InitStream /\ [][NextStream]_vars /\ WF_vars(NextStream)

----------------------------------------------------------------------------
(* Claims about the vector store *)

\* C3: after any sequence of successful adds, interleaved with reloads and
\* resets, len(documents) == len(metadata) == index.count holds in memory.
C3_LengthInvariant ==
  store_ok => /\ Len(documents) = Len(metadata)
              /\ Len(metadata) = Len(index)

\* C3 witness: an add without metadatas has completed on a store that is now full
C3_Witness ==
  /\ call.op = "add"
  /\ ~ret.raised
  /\ Len(call.texts) = MaxBatch
  /\ Len(index) = MaxDocs
  /\ metadata[MaxDocs] = EmptyMeta
  /\ \E i \in 1..MaxDocs : metadata[i] = CaptionedMeta

\* C4: an add whose gateway call fails leaves the in-memory index, documents and
\* metadata and the three files exactly as they were, and raises.
C4_EmbedFailureRejectsBatch ==
  [][(call'.op = "add" /\ call'.texts # <<>> /\ ~call'.embed_ok)
       => /\ ret'.raised
          /\ index' = index
          /\ documents' = documents
          /\ metadata' = metadata
          /\ f_index' = f_index
          /\ f_docs' = f_docs
          /\ f_meta' = f_meta]_vars

\* C4 witness: the gateway call of an add on a non-empty, persisted store has failed
C4_Witness ==
  /\ call.op = "add"
  /\ call.texts # <<>>
  /\ ~call.embed_ok
  /\ ret.raised
  /\ Len(documents) > 0
  /\ f_docs.state = "ok"

\* C5 (as claimed): an add that fails at any step, a save cut short included,
\* leaves the three persisted files as they were before the call.
C5_FailedAddLeavesFilesUntouched ==
  [][(call'.op = "add" /\ ret'.raised)
       => /\ f_index' = f_index
          /\ f_docs' = f_docs
          /\ f_meta' = f_meta]_vars

\* C6: a store opened on the persist directory holds the same index, documents
\* and metadata, in the same positions, as the in-memory store that wrote them,
\* and answers every search with the same ranked results.
C6_RoundTrip ==
  store_ok =>
    LET e == LoadEffect(curDisk)
    IN /\ ~e.raised
       /\ e.mem.index = index
       /\ e.mem.documents = documents
       /\ e.mem.metadata = metadata
       /\ \A q \in Texts, k \in 1..MaxK :
            SimilaritySearchWithScore(e.mem.index, e.mem.documents, e.mem.metadata, q, k)
              = SimilaritySearchWithScore(index, documents, metadata, q, k)

\* C6 witness: a store has been opened on a directory written by earlier adds,
\* some with metadata and some without
C6_Witness ==
  /\ call.op = "open"
  /\ ~ret.raised
  /\ Len(documents) >= 2
  /\ \E i \in 1..Len(metadata) : metadata[i] = CaptionedMeta
  /\ \E i \in 1..Len(metadata) : metadata[i] = EmptyMeta

\* C7 (as claimed): a load that completes leaves the three lengths equal; a
\* directory whose artifacts have different lengths makes the load fail.
C7_LoadRejectsInconsistentLengths ==
  (call.op = "open" /\ ~ret.raised)
    => /\ Len(index) = Len(documents)
       /\ Len(documents) = Len(metadata)

\* C13: after delete_collection the index, the documents and the metadata are
\* empty in memory, the stats report no document and an empty index, every
\* search returns [], none of the three files remains, and a store opened on
\* the directory is empty.
C13_ResetEmptiesStore ==
  call.op = "delete" =>
    /\ index = <<>> /\ documents = <<>> /\ metadata = <<>>
    /\ GetCollectionStats(curMem).total_documents = 0
    /\ GetCollectionStats(curMem).index_size = 0
    /\ \A q \in Texts, k \in 1..MaxK :
         SimilaritySearchWithScore(index, documents, metadata, q, k) = <<>>
    /\ f_index.state = "absent" /\ f_docs.state = "absent" /\ f_meta.state = "absent"
    /\ LoadEffect(curDisk) = [mem |-> EmptyMem, raised |-> FALSE]

\* C13 witness: a collection holding MaxDocs persisted chunks has been deleted
C13_Witness ==
  /\ call.op = "delete"
  /\ call.chunks = MaxDocs
  /\ documents = <<>>
  /\ f_docs.state = "absent"

\* a >= b for two fractions with positive denominators
FractionGeq(a, b) == a.num * b.den >= b.num * a.den

C9_SearchCount ==
  call.op = "search" =>
    /\ ret.raised <=> ~call.embed_ok
    /\ call.embed_ok =>
         Len(ret.value) = (IF call.k <= Len(documents) THEN call.k ELSE Len(documents))

\* C9 witness: a search has asked a non-empty store for more than it holds
C9_Witness ==
  /\ call.op = "search"
  /\ call.embed_ok
  /\ Len(documents) > 0
  /\ call.k > Len(documents)
  /\ Len(ret.value) = Len(documents)

\* C9 witness on the empty store: the search returned the empty list
C9_EmptyWitness ==
  /\ call.op = "search"
  /\ documents = <<>>
  /\ ret = Returned(<<>>)

----------------------------------------------------------------------------
(* Claims about the document filter *)

\* a <= b for two strings: equal, or a is a proper prefix of b, or they first
\* differ at a position where a holds the smaller character
StrLeq(a, b) ==
  \/ a = b
  \/ /\ Len(a) < Len(b)
     /\ \A i \in 1..Len(a) : a[i] = b[i]
  \/ \E i \in 1..Min(Len(a), Len(b)) :
       /\ a[i] < b[i]
       /\ \A j \in 1..(i - 1) : a[j] = b[j]

\* the four dimensions C2 names, each imposing nothing when its list is empty
\* or absent or its bound unset
PassesCaptions(f, md) == f.require_captions = PyTrue => md.has_captions = PyTrue

PassesCategories(f, md) ==
  (f.categories.has /\ Len(f.categories.items) > 0) =>
    \E i \in 1..Len(f.categories.items) :
      f.categories.items[i] =
        (IF md.category = Missing THEN "uncategorized" ELSE md.category)

PassesQuality(f, md) ==
  (f.quality_levels.has /\ Len(f.quality_levels.items) > 0) =>
    \E i \in 1..Len(f.quality_levels.items) :
      f.quality_levels.items[i] =
        (IF md.quality_score = Missing THEN "unknown" ELSE md.quality_score)

BoundSet(d) == d.has /\ Len(d.s) > 0

PassesDates(f, md) ==
  (BoundSet(f.date_from) \/ BoundSet(f.date_to)) =>
    /\ BoundSet(md.published_date)
    /\ BoundSet(f.date_from) => StrLeq(f.date_from.s, md.published_date.s)
    /\ BoundSet(f.date_to) => StrLeq(md.published_date.s, f.date_to.s)

\* the playlists dimension (the subject of C17), as apply_filters has it
PassesPlaylists(f, md) ==
  (f.playlists.has /\ Len(f.playlists.items) > 0) =>
    /\ md.playlists.has
    /\ \E i \in 1..Len(f.playlists.items), j \in 1..Len(md.playlists.items) :
         f.playlists.items[i] = md.playlists.items[j]

PassesEveryDimension(f, md) ==
  /\ PassesCaptions(f, md)
  /\ PassesCategories(f, md)
  /\ PassesQuality(f, md)
  /\ PassesDates(f, md)
  /\ PassesPlaylists(f, md)

\* C2: apply_filters returns exactly the order-preserving subsequence of its
\* input made of the results that pass every active dimension (captions,
\* categories with 'uncategorized' for a missing one, quality levels with
\* 'unknown' for a missing one, inclusive date range on a present date); a
\* spec with no active dimension returns the input unchanged.
C2_ApplyFiltersIsStableConjunction ==
  call.op = "apply_filters" =>
    LET Passes(d) == PassesEveryDimension(filters, d.metadata)
    IN ret.value = SelectSeq(call.documents, Passes)

\* C2 witness: a two-element list has lost its first element to a spec with a
\* caption requirement and both date bounds, and kept its second, whose date
\* equals both bounds
C2_Witness ==
  /\ call.op = "apply_filters"
  /\ filters.require_captions = PyTrue
  /\ filters.date_from = Date(D2)
  /\ filters.date_to = Date(D2)
  /\ Len(call.documents) = 2
  /\ Len(ret.value) = 1
  /\ ret.value[1] = call.documents[2]
  /\ ret.value[1].metadata.published_date = Date(D2)

\* C10: calculate_over_fetch(n, True) == min(3n, 20) and
\* calculate_over_fetch(n, False) == n for every n > 0.
C10_OverFetch ==
  call.op = "calculate_over_fetch" =>
    ret.value = (IF call.active
                   THEN (IF 3 * call.n <= 20 THEN 3 * call.n ELSE 20)
                   ELSE call.n)

\* C10 witness: the cap has applied
C10_Witness ==
  /\ call.op = "calculate_over_fetch"
  /\ call.active
  /\ 3 * call.n > 20
  /\ ret.value = 20

\* the values a list holds
Values(items) == {items[i] : i \in 1..Len(items)}

\* C17: with a non-empty playlists filter a result survives the playlists
\* dimension if and only if a requested value is among its metadata.playlists
\* or its metadata.playlist_ids; a chunk the loader ingested survives a filter
\* that names one of its playlist ids.
C17_PlaylistsMatchTitlesOrIds ==
  (call.op = "apply_filters" /\ filters.playlists.has /\ Len(filters.playlists.items) > 0) =>
    \A k \in 1..Len(call.documents) :
      LET md == call.documents[k].metadata
          stored == (IF md.playlists.has THEN Values(md.playlists.items) ELSE {})
                      \cup (IF md.playlist_ids.has THEN Values(md.playlist_ids.items) ELSE {})
          survives == \E j \in 1..Len(ret.value) : ret.value[j] = call.documents[k]
      IN (/\ PassesCaptions(filters, md) /\ PassesCategories(filters, md)
          /\ PassesQuality(filters, md) /\ PassesDates(filters, md)) =>
           (survives <=> Values(filters.playlists.items) \cap stored # {})

\* the separators of a summary string
Separators(summary) ==
  Cardinality({i \in 1..Len(summary) : summary[i].kind = "text" /\ summary[i].v = " | "})

\* the dimension groups of a spec that are active: captions, categories,
\* quality levels, the date range, playlists
ActiveGroups(f) ==
  Cardinality({g \in 1..5 :
     CASE g = 1 -> f.require_captions = PyTrue
       [] g = 2 -> f.categories.has /\ Len(f.categories.items) > 0
       [] g = 3 -> f.quality_levels.has /\ Len(f.quality_levels.items) > 0
       [] g = 4 -> BoundSet(f.date_from) \/ BoundSet(f.date_to)
       [] g = 5 -> f.playlists.has /\ Len(f.playlists.items) > 0})

\* the dimensions a filter dictionary touches
Dimensions(f) ==
  (IF f.require_captions # Missing THEN {"captions"} ELSE {})
    \cup (IF f.categories.has THEN {"categories"} ELSE {})
    \cup (IF f.quality_levels.has THEN {"quality"} ELSE {})
    \cup (IF f.date_from.has \/ f.date_to.has THEN {"date"} ELSE {})
    \cup (IF f.playlists.has THEN {"playlists"} ELSE {})
    \cup (IF f.other THEN {"other"} ELSE {})

\* the dictionary with the keys of both, for two dictionaries on disjoint
\* dimensions
Combined(f, g) ==
  FilterDict(IF f.require_captions # Missing THEN f.require_captions
             ELSE g.require_captions,
             IF f.categories.has THEN f.categories ELSE g.categories,
             IF f.quality_levels.has THEN f.quality_levels ELSE g.quality_levels,
             IF f.date_from.has THEN f.date_from ELSE g.date_from,
             IF f.date_to.has THEN f.date_to ELSE g.date_to,
             IF f.playlists.has THEN f.playlists ELSE g.playlists,
             f.other \/ g.other)

\* C25: when a result list is passed through apply_filters under one dictionary
\* and its output through apply_filters under a second dictionary on disjoint
\* dimensions, the output is that of one apply_filters under the dictionary
\* with the keys of both; and after set_filters the active dictionary is the
\* one it was given, nothing kept of the one before
C25_DisjointFiltersCompose ==
  /\ (/\ call.op = "apply_filters"
      /\ Len(call.chain) = 2
      /\ Dimensions(call.chain[1]) \cap Dimensions(call.chain[2]) = {}) =>
       ret.value = ApplyFilters(Combined(call.chain[1], call.chain[2]), input.documents)
  /\ call.op = "set_filters" => filters = call.spec

\* C25 witness: two results passed through two active dictionaries on disjoint
\* dimensions, the first removing one result and the second the other
C25_Witness ==
  /\ call.op = "apply_filters"
  /\ Len(call.chain) = 2
  /\ Dimensions(call.chain[1]) \cap Dimensions(call.chain[2]) = {}
  /\ HasActiveFilters(call.chain[1])
  /\ HasActiveFilters(call.chain[2])
  /\ filters = call.chain[2]
  /\ Len(input.documents) = 2
  /\ Len(call.documents) = 1
  /\ ret.value = <<>>

\* C23 (as claimed): the summary string is non-empty if and only if
\* has_active_filters is true for the spec.
C23_SummaryNonEmptyIffActive ==
  call.op = "get_filter_summary" =>
    (Len(ret.value) > 0 <=> HasActiveFilters(filters))

\* C23 (amended): the summary string is never empty; it is the fixed text
\* 'No filters active' if and only if has_active_filters is false for the
\* spec, and otherwise it describes each active dimension, one part per
\* dimension, the parts separated by ' | '.
C23_SummaryNamesActiveFilters ==
  call.op = "get_filter_summary" =>
    /\ ~ret.raised
    /\ Len(ret.value) > 0
    /\ (ret.value[1].kind = "text" /\ ret.value[1].v = "No filters active")
         <=> ~HasActiveFilters(filters)
    /\ HasActiveFilters(filters) => Separators(ret.value) + 1 = ActiveGroups(filters)
    /\ ~HasActiveFilters(filters) => Len(ret.value) = 1

\* C23 witness: the summary of a spec with an empty list of categories and no
\* active dimension has been asked for
C23_Witness ==
  /\ call.op = "get_filter_summary"
  /\ filters.categories = List(<<>>)
  /\ ~HasActiveFilters(filters)
  /\ Len(ret.value) = 1
  /\ ret.value[1].v = "No filters active"

\* C23 witness of an active spec: three dimensions, three parts
C23_ActiveWitness ==
  /\ call.op = "get_filter_summary"
  /\ ActiveGroups(filters) = 3
  /\ Separators(ret.value) = 2

----------------------------------------------------------------------------
(* Claims about the retrieval orchestrator *)

\* a spec with an active dimension: a caption requirement, a non-empty list of
\* categories, quality levels or playlists, or a date bound
HasActiveDimension(f) ==
  \/ f.require_captions = PyTrue
  \/ f.categories.has /\ Len(f.categories.items) > 0
  \/ f.quality_levels.has /\ Len(f.quality_levels.items) > 0
  \/ f.playlists.has /\ Len(f.playlists.items) > 0
  \/ f.date_from.has /\ Len(f.date_from.s) > 0
  \/ f.date_to.has /\ Len(f.date_to.s) > 0

\* C1: retrieve returns search(q, n) when the spec is absent or has no active
\* dimension, and otherwise the first n elements of
\* apply(search(q, min(3n, 20)), spec); it never returns more than n elements,
\* never pads, and does not depend on the spec of an earlier call.  (A retrieve
\* whose search raises, the gateway call failing, returns nothing.)
C1_Retrieve ==
  (call.op = "retrieve" /\ call.embed_ok) =>
    LET n == call.n
        fetch == IF 3 * n <= 20 THEN 3 * n ELSE 20
        Hits(k) == SimilaritySearchWithScore(index, documents, metadata, call.question, k)
        filtered == ApplyFilters(call.spec, Hits(fetch))
    IN /\ ~ret.raised
       /\ Len(ret.value) <= n
       /\ IF call.spec.none \/ ~HasActiveDimension(call.spec)
            THEN ret.value = Hits(n)
            ELSE ret.value = (IF Len(filtered) <= n THEN filtered ELSE SubSeq(filtered, 1, n))

\* C1 witness: a filtered retrieve for n = 7 has come back under-filled
C1_Witness ==
  /\ call.op = "retrieve"
  /\ ~ret.raised
  /\ HasActiveDimension(call.spec)
  /\ call.n = 7
  /\ Len(ret.value) > 0
  /\ Len(ret.value) < 7
  /\ Len(documents) > 20

\* C1 witness of truncation: more than n of the fetched results passed the spec
C1_TruncatedWitness ==
  /\ call.op = "retrieve"
  /\ ~ret.raised
  /\ HasActiveDimension(call.spec)
  /\ Len(ret.value) = call.n
  /\ Len(ApplyFilters(call.spec,
                      SimilaritySearchWithScore(index, documents, metadata, call.question,
                                                3 * call.n))) > call.n

\* a dictionary all of whose keys are unknown to the filter
OnlyUnrecognisedKeys(f) ==
  /\ ~f.none
  /\ f.other
  /\ f.require_captions = Missing
  /\ ~f.categories.has /\ ~f.quality_levels.has /\ ~f.playlists.has
  /\ ~f.date_from.has /\ ~f.date_to.has

\* C18: retrieve with a spec that holds only unrecognised keys raises no error
\* of its own and returns exactly what retrieve returns for the same query and
\* n with no spec, the n nearest hits of the search; it raises only where the
\* search itself does, the gateway call failing.
C18_UnknownKeysAreNoOp ==
  (call.op = "retrieve" /\ OnlyUnrecognisedKeys(call.spec)) =>
    /\ ret.raised <=> ~call.embed_ok
    /\ call.embed_ok =>
         ret.value = SimilaritySearchWithScore(index, documents, metadata,
                                               call.question, call.n)

\* C18 witness: a retrieve with such a spec has come back with three hits, one
\* of them without captions, and has left the spec in the engine's filter
C18_Witness ==
  /\ call.op = "retrieve"
  /\ OnlyUnrecognisedKeys(call.spec)
  /\ filters = call.spec
  /\ call.n = 3
  /\ ~ret.raised
  /\ Len(ret.value) = 3
  /\ \E i \in 1..3 : ret.value[i].metadata.has_captions # PyTrue

----------------------------------------------------------------------------
(* Claims about the metadata enhancer *)

\* the fixed order of the category groups
Precedence == <<"daily_update", "educational", "interview", "special_event">>

\* the group of a category has a pattern that matches the words
GroupMatches(category, words) ==
  \E g \in 1..Len(CATEGORY_PATTERNS) :
    /\ CATEGORY_PATTERNS[g].category = category
    /\ \E i \in 1..Len(CATEGORY_PATTERNS[g].patterns) :
         PatternSearch(CATEGORY_PATTERNS[g].patterns[i], words)

FirstTier(wpm, tech_count) ==
  CASE wpm >= 120 /\ tech_count >= 5 -> "high"
    [] ~(wpm >= 120 /\ tech_count >= 5) /\ wpm >= 80 /\ tech_count >= 2 -> "medium"
    [] ~(wpm >= 120 /\ tech_count >= 5) /\ ~(wpm >= 80 /\ tech_count >= 2) /\ wpm >= 40
         -> "low"
    [] OTHER -> "none"

NoContent(m) == ~m.content.has \/ Len(m.content.words) = 0
NoDuration(m) == ~m.duration.has \/ m.duration.v = 0

\* the number of keywords of the list that occur in the words
KeywordCount(words) ==
  Cardinality({k \in 1..Len(TECHNICAL_KEYWORDS) : KeywordIn(TECHNICAL_KEYWORDS[k], words)})

C15_UnknownWitness ==
  /\ call.op = "enhance"
  /\ ~call.metadata.content.has
  /\ ret.value.quality_score = "unknown"

\* none < low < medium < high
TierRank(tier) ==
  CASE tier = "none" -> 0 [] tier = "low" -> 1 [] tier = "medium" -> 2 [] tier = "high" -> 3

\* C16: raising words_per_minute or the keyword count, the other held fixed,
\* never lowers the tier.
C16_QualityMonotone ==
  call.op = "tier" =>
    /\ \A wpm \in call.wpm..(MaxWpm + 1) :
         TierRank(QualityTier(wpm, call.tech_count)) >= TierRank(ret.value)
    /\ \A tech_count \in call.tech_count..(MaxTech + 1) :
         TierRank(QualityTier(call.wpm, tech_count)) >= TierRank(ret.value)

\* C16 witness: a pair one word per minute short of the highest tier
C16_Witness ==
  /\ call.op = "tier"
  /\ call.wpm = 119
  /\ call.tech_count = 5
  /\ ret.value = "medium"
  /\ QualityTier(120, 5) = "high"

\* the dates of a sample: the published_date values that are present and not ''
SampleDates(docs) ==
  {docs[i].published_date.s :
     i \in {j \in 1..Len(docs) : docs[j].published_date.has
                                 /\ Len(docs[j].published_date.s) > 0}}

\* C19: get_filter_statistics gives each of the five categories and of the five
\* quality tiers the number of sample entries with that value (a missing
\* category counting as uncategorized, a missing quality as unknown), counts
\* every entry as with or without captions, gives the lexicographic minimum
\* and maximum of the dates, null when there is none, and a percentage of 0
\* for an empty sample.
C19_FilterStatistics ==
  call.op = "statistics" =>
    LET docs == call.documents
        stats == ret.value
        CategoryOf(md) == IF md.category = Missing THEN "uncategorized" ELSE md.category
        QualityOf(md) == IF md.quality_score = Missing THEN "unknown" ELSE md.quality_score
        dates == SampleDates(docs)
    IN /\ DOMAIN stats.categories
            = {"daily_update", "educational", "interview", "special_event", "uncategorized"}
       /\ \A c \in DOMAIN stats.categories :
            stats.categories[c]
              = Cardinality({i \in 1..Len(docs) : CategoryOf(docs[i]) = c})
       /\ DOMAIN stats.quality_levels = {"high", "medium", "low", "none", "unknown"}
       /\ \A q \in DOMAIN stats.quality_levels :
            stats.quality_levels[q]
              = Cardinality({i \in 1..Len(docs) : QualityOf(docs[i]) = q})
       /\ stats.total_documents = Len(docs)
       /\ stats.caption_coverage.with_captions + stats.caption_coverage.without_captions
            = stats.total_documents
       /\ stats.caption_coverage.with_captions
            = Cardinality({i \in 1..Len(docs) : docs[i].has_captions = PyTrue})
       /\ Len(docs) = 0 => stats.caption_coverage.percentage = 0
       /\ dates = {} => /\ ~stats.date_range.earliest.has
                        /\ ~stats.date_range.latest.has
       /\ dates # {} => /\ stats.date_range.earliest.has
                        /\ stats.date_range.latest.has
                        /\ stats.date_range.earliest.s \in dates
                        /\ stats.date_range.latest.s \in dates
                        /\ \A d \in dates : /\ StrLeq(stats.date_range.earliest.s, d)
                                            /\ StrLeq(d, stats.date_range.latest.s)

\* C19 witness: a sample of three, one entry without a category, whose dates
\* differ, has been reduced
C19_Witness ==
  /\ call.op = "statistics"
  /\ Len(call.documents) = 3
  /\ \E i \in 1..3 : call.documents[i].category = Missing
  /\ ret.value.categories["uncategorized"] >= 1
  /\ ret.value.date_range.earliest = Date(D1)
  /\ ret.value.date_range.latest = Date(D3)
  /\ ret.value.caption_coverage.without_captions = 3

\* C21: enhancing the result of an enhancement completes and gives the same
\* category, quality_score, words_per_minute and technical_keyword_count, the
\* title, content and duration being those of the first enhancement.
C21_EnhanceIdempotent ==
  (call.op = "enhance" /\ call.again) =>
    /\ ~ret.raised
    /\ ret.value.title = call.metadata.title
    /\ ret.value.content = call.metadata.content
    /\ ret.value.duration = call.metadata.duration
    /\ ret.value.category = call.metadata.category
    /\ ret.value.quality_score = call.metadata.quality_score
    /\ ret.value.words_per_minute = call.metadata.words_per_minute
    /\ ret.value.technical_keyword_count = call.metadata.technical_keyword_count

\* C21 witness: a dictionary scored high has been enhanced a second time, at
\* a later moment
C21_Witness ==
  /\ call.op = "enhance"
  /\ call.again
  /\ call.metadata.quality_score = "high"
  /\ ret.value.quality_score = "high"
  /\ ret.value.metadata_enhanced_at # call.metadata.metadata_enhanced_at

\* the keys of a dictionary that enhance_metadata does not derive keep their
\* values, and the dictionary handed in is left as it was
KeepsGivenKeys(m, e, left) ==
  /\ e.title = m.title
  /\ e.content = m.content
  /\ e.duration = m.duration
  /\ e.published_at = m.published_at
  /\ m.has_captions # Missing => e.has_captions = m.has_captions
  /\ left = m

----------------------------------------------------------------------------
(* Claims about the engine's statistics *)

\* the source documents with chunks in the index, by their keys
SourceDocuments == {DocumentKey(metadata[i]) : i \in 1..Len(metadata)} \ {""}

\* the metadata of a source document, the same on each of its chunks
MetadataOf(key) ==
  metadata[CHOOSE i \in 1..Len(metadata) : DocumentKey(metadata[i]) = key]

\* C20: the statistics of the engine count each distinct source document
\* (keyed by video_id, else source) with chunks in the index exactly once, in
\* total_documents and in the category, quality and caption counts, however
\* many chunks it has.
C20_StatisticsCountSourceDocumentsOnce ==
  (call.op = "filter_statistics" /\ ~ret.raised) =>
    LET stats == ret.value
    IN /\ stats.total_documents = Cardinality(SourceDocuments)
       /\ \A c \in DOMAIN stats.categories :
            stats.categories[c]
              = Cardinality({k \in SourceDocuments : MetadataOf(k).category = c})
       /\ \A q \in DOMAIN stats.quality_levels :
            stats.quality_levels[q]
              = Cardinality({k \in SourceDocuments : MetadataOf(k).quality_score = q})
       /\ stats.caption_coverage.with_captions
            = Cardinality({k \in SourceDocuments : MetadataOf(k).has_captions = PyTrue})
       /\ stats.caption_coverage.without_captions
            = Cardinality({k \in SourceDocuments : MetadataOf(k).has_captions # PyTrue})

\* C20 restricted to collections the sample covers whole
C20_WithinSample ==
  Len(index) <= SampleSize => C20_StatisticsCountSourceDocumentsOnce

\* three chunks of two source documents have been counted as two
C20_SmallWitness ==
  /\ call.op = "filter_statistics"
  /\ ~ret.raised
  /\ Len(metadata) = 3
  /\ Cardinality(SourceDocuments) = 2
  /\ ret.value.total_documents = 2

----------------------------------------------------------------------------
(* Claims about the stream endpoint *)

\* the events of the stream are in order: no source after a token, at most one
\* terminal event, nothing after it, and a stream that is over ends in done
\* when nothing raised and in error when something did
StreamInOrder ==
  stream.pc # "none" =>
    LET ev == stream.events
        Terminal(i) == ev[i].type \in {"done", "error"}
    IN /\ \A i, j \in 1..Len(ev) :
            (i < j /\ ev[i].type = "token") => ev[j].type # "source"
       /\ \A i \in 1..Len(ev) : Terminal(i) => (i = Len(ev) /\ stream.pc = "closed")
       /\ stream.pc = "closed" =>
            /\ Len(ev) > 0
            /\ ev[Len(ev)].type = (IF stream.raised THEN "error" ELSE "done")

----------------------------------------------------------------------------
(* Claims about a reset cut short *)

----------------------------------------------------------------------------
(* Claims about the size of the fetch *)

\* C27: when filters are active, the number of candidates retrieve_sources
\* fetches from the index is never smaller than the requested n, for every
\* n > 0
C27_FetchNeverBelowRequest ==
  (call.op = "retrieve" /\ DictTruthy(call.spec) /\ HasActiveFilters(filters)) =>
    call.fetch_count >= call.n

----------------------------------------------------------------------------
(* Claims about the calls that read *)

\* the calls the claim names
ReadCalls == {"search", "retrieve", "apply_filters", "stats", "filter_statistics"}

\* C26: search, retrieve, apply, stats and filter_statistics are reads: a step
\* that is one of these calls changes neither the store's index, documents and
\* stored metadata nor the three persisted files, and apply_filters leaves the
\* results it was given, their metadata included, as they were
C26_ReadsChangeNothing ==
  [][call'.op \in ReadCalls =>
       /\ UNCHANGED <<index, documents, metadata, f_index, f_docs, f_meta>>
       /\ call'.op = "apply_filters" => call'.left = call'.documents]_vars

\* C26 witness: a retrieval under active filters has returned sources from a
\* persisted collection whose fetched chunks include some without a category
C26_Witness ==
  /\ call.op = "retrieve"
  /\ call.embed_ok
  /\ HasActiveFilters(filters)
  /\ DictTruthy(call.spec)
  /\ Len(documents) = MaxCorpus
  /\ f_meta.state = "ok"
  /\ Len(ret.value) > 1
  /\ \E p \in 1..Len(metadata) : metadata[p].category = Missing

----------------------------------------------------------------------------
(* Claims about the batch loader *)

\* how many of the persisted documents are the chunk text
PersistedCopies(text) ==
  IF f_docs.state = "ok"
    THEN Cardinality({i \in 1..Len(f_docs.data) : f_docs.data[i].v = text})
    ELSE 0

C28_ChunksPersistedAtMostOnce ==
  /\ \A i \in 1..MaxFiles :
       \A c \in Values(SplitText(CaptionFiles[i])) : PersistedCopies(c) <= 1
  /\ (loader.pc = "running" /\ loader.loaded_json.state = "ok") =>
       \A f \in Values(loader.files) : ~InList(f, loader.loaded_json.data)

----------------------------------------------------------------------------
(* Claims about concurrent calls *)

\* C11 (as claimed): a retrieve that runs in a worker thread next to other
\* retrieves returns at most its own n results, every one of which satisfies
\* its own spec.
C11_ConcurrentRetrieveUsesOwnSpec ==
  (call.op = "retrieve" /\ ~ret.raised) =>
    /\ Len(ret.value) <= call.n
    /\ ~call.spec.none =>
         \A i \in 1..Len(ret.value) :
           PassesEveryDimension(call.spec, ret.value[i].metadata)

\* the store before the add of an overlap run, and after it
OverlapBefore == CorpusMem(input.start)
OverlapAfter ==
  Mem(OverlapBefore.index \o [i \in 1..Len(input.args.texts) |-> input.args.texts[i] - 1],
      OverlapBefore.documents \o input.args.texts,
      OverlapBefore.metadata \o
        (IF input.args.metadatas.has
           THEN input.args.metadatas.items
           ELSE [i \in 1..Len(input.args.texts) |-> EmptyMeta]))

\* C12 (as claimed): while an add is in progress, a store loaded from the
\* directory holds the state before the add or the state after it, and a
\* search in memory answers as it would on one of the two.
C12_ReadersSeeOneVersion ==
  /\ (reader.open /\ ~reader.raised) => reader.mem \in {OverlapBefore, OverlapAfter}
  /\ (call.op = "search" /\ ~ret.raised) =>
       \E m \in {OverlapBefore, OverlapAfter} :
         ret.value = SimilaritySearchWithScore(m.index, m.documents, m.metadata,
                                               call.q, call.k)

====
